---- MODULE Spec2Model ----
(***************************************************************************)
(* A model of the cloud3d dataset recipes (tacofoundation/taco-recipes,     *)
(* directory 3dclouds): context enumeration (dataset/metadata.py), the      *)
(* level0 record builders and their batch drivers (dataset/levels/level0.py)*)
(* and the day-of-month split rule, for the four level0 variants present:   *)
(*   pre_msi      pretraining/msi                                           *)
(*   ft_himawari  finetune/cloud3d-finetune-himawari                        *)
(*   ft_msi       finetune/cloud3d-finetune-msi                             *)
(*   ft_cyclone   finetune/cloud3d-finetune-cyclone                         *)
(* and the six load_contexts variants (the four above, ft_goes and          *)
(* pre_himawari).                                                           *)
(*                                                                         *)
(* Three specifications share the module: SpecSplit (determine_split),      *)
(* SpecLoad (load_contexts) and Spec (build).                               *)
(***************************************************************************)
EXTENDS Integers, Sequences, FiniteSets, TLC

VARIABLES
    \* ---- determine_split ------------------------------------------------
    timestamp_us,   \* the argument: [s |-> seconds, us |-> microseconds]
    tz,             \* UTC offset (seconds) of the process's local time zone
    split,          \* the value returned, "pending" before the call
    \* ---- parse_timestamp_from_dirname, then determine_split --------------
    sample_id,      \* the sample directory's name
    parsed_ts,      \* what parsing gave: <<>> before, then <<[ok, t]>>
    split_label,    \* the split given to the parsed timestamp, "pending" before
    \* ---- level1.build --------------------------------------------------
    l1variant,      \* which level1.py
    l1ctx,          \* the ctx argument
    l1samples,      \* the list [fn(ctx) for fn in SAMPLES] as far as it is built
    l1ret,          \* what build(ctx) gave: "none", "tortilla", "raised"
    \* ---- one cyclone sample: load_contexts' loop body, then build_sample --
    cyc_folder,     \* the sample folder: its name and what it holds
    cyc_ctx,        \* the context dict made for it, <<>> before there is one
    cyc_out,        \* what became of it: "pending", "sample" or "raise"
    \* ---- load_contexts --------------------------------------------------
    lvariant,       \* which metadata.py
    listing,        \* the directory entries, in the order the file system lists them
    limit,          \* the limit argument
    loaded,         \* the value returned: [kind, ids], "pending" before the call
    \* ---- build ----------------------------------------------------------
    variant,        \* which level0.py
    contexts,       \* the contexts argument: a sequence of context environments
    parallel,       \* the parallel argument
    pc,             \* where build() is
    task,           \* per context: "idle", "submitted", "done"
    calls,          \* per context: how many times the builder was called on it
    results,        \* per context: the task's outcome once it has run
    cursor,         \* how many results the aggregation loop has consumed
    order,          \* parallel cyclone: indices in completion order (as_completed)
    samples,        \* the samples list being aggregated
    failed_ids,     \* pretraining msi: the failed_ids list
    printed,        \* identifiers named in printed diagnostics
    ret             \* what build() gave its caller: "none", "tortilla", "raised"

splitVars == <<timestamp_us, tz, split>>
loadVars  == <<lvariant, listing, limit, loaded>>
buildVars == <<variant, contexts, parallel, pc, task, calls, results, cursor,
               order, samples, failed_ids, printed, ret>>
parseVars == <<sample_id, parsed_ts, split_label>>
level1Vars == <<l1variant, l1ctx, l1samples, l1ret>>
cycloneVars == <<cyc_folder, cyc_ctx, cyc_out>>
vars == <<splitVars, loadVars, buildVars, parseVars, level1Vars, cycloneVars>>

Min(a, b) == IF a <= b THEN a ELSE b
Max(a, b) == IF a >= b THEN a ELSE b
Range(s) == {s[i] : i \in DOMAIN s}

(***************************************************************************)
(* Calendar arithmetic: what datetime.fromtimestamp / datetime.timestamp    *)
(* do for a fixed-offset local time zone (proleptic Gregorian calendar).    *)
(***************************************************************************)
SecondsPerDay == 24 * 3600

\* Local time zones: UTC-5, UTC, UTC+9.
Offsets == {0 - 5 * 3600, 0, 9 * 3600}

\* The civil date of a day count since 1970-01-01.
CivilFromDays(z0) ==
    LET z   == z0 + 719468
        era == z \div 146097
        doe == z - era * 146097
        yoe == (doe - doe \div 1460 + doe \div 36524 - doe \div 146096) \div 365
        doy == doe - (365 * yoe + yoe \div 4 - yoe \div 100)
        mp  == (5 * doy + 2) \div 153
        d   == doy - (153 * mp + 2) \div 5 + 1
        m   == IF mp < 10 THEN mp + 3 ELSE mp - 9
        y   == yoe + era * 400 + (IF m <= 2 THEN 1 ELSE 0)
    IN  [year |-> y, month |-> m, day |-> d]

\* datetime.fromtimestamp(timestamp_us / 1_000_000): the naive local datetime.
FromTimestamp(t, offset) ==
    LET local == t.s + offset
        date  == CivilFromDays(local \div SecondsPerDay)
        sod   == local % SecondsPerDay
    IN  [year |-> date.year, month |-> date.month, day |-> date.day,
         hour |-> sod \div 3600, minute |-> (sod % 3600) \div 60,
         second |-> sod % 60, microsecond |-> t.us]

(***************************************************************************)
(* The split rule (finetune himawari and finetune msi level0.py).           *)
(***************************************************************************)
SPLIT_DAYS_OffByOne ==
    [train |-> 1..22, validation |-> 24..27, test |-> 28..31]
SPLIT_DAYS ==
    [train |-> 1..23, validation |-> 24..27, test |-> 28..31]

determine_split(t, offset) ==
    LET day == FromTimestamp(t, offset).day
    IN  IF day \in SPLIT_DAYS.train THEN "train"
        ELSE IF day \in SPLIT_DAYS.validation THEN "validation"
        ELSE "test"

\* Inverse of CivilFromDays: the day count since 1970-01-01 of a civil date.
DaysFromCivil(y0, m, d) ==
    LET y   == IF m <= 2 THEN y0 - 1 ELSE y0
        era == y \div 400
        yoe == y - era * 400
        doy == (153 * (IF m > 2 THEN m - 3 ELSE m + 9) + 2) \div 5 + d - 1
        doe == yoe * 365 + yoe \div 4 - yoe \div 100 + doy
    IN  era * 146097 + doe - 719468

\* datetime.timestamp() of a naive local datetime, then int(... * 1_000_000).
ToTimestampUs(dt, offset) ==
    [s  |-> DaysFromCivil(dt.year, dt.month, dt.day) * SecondsPerDay
            + dt.hour * 3600 + dt.minute * 60 + dt.second - offset,
     us |-> dt.microsecond]

(***************************************************************************)
(* Floating-point values: a finite value (an integer number of degrees; the *)
(* inputs are chosen so that every arithmetic result is integral) or one of *)
(* the IEEE specials.                                                       *)
(***************************************************************************)
Fin(n) == [k |-> "fin", v |-> n]
PosInf == [k |-> "inf", v |-> 0]
NegInf == [k |-> "ninf", v |-> 0]
NaN    == [k |-> "nan", v |-> 0]

IsNaN(x)    == x.k = "nan"
IsInf(x)    == x.k \in {"inf", "ninf"}
IsFinite(x) == x.k = "fin"

FNeg(x) ==
    CASE x.k = "fin"  -> Fin(0 - x.v)
      [] x.k = "inf"  -> NegInf
      [] x.k = "ninf" -> PosInf
      [] OTHER        -> NaN

FAdd(x, y) ==
    CASE IsNaN(x) \/ IsNaN(y)          -> NaN
      [] IsFinite(x) /\ IsFinite(y)    -> Fin(x.v + y.v)
      [] IsInf(x) /\ IsInf(y)          -> IF x.k = y.k THEN x ELSE NaN
      [] IsInf(x)                      -> x
      [] OTHER                         -> y

FSub(x, y) == FAdd(x, FNeg(y))

\* x / 2 (exact on the even finite values the model feeds it).
FHalf(x) == IF IsFinite(x) THEN Fin(x.v \div 2) ELSE x

\* x > y: false whenever a NaN is involved.
FGt(x, y) ==
    CASE IsNaN(x) \/ IsNaN(y)       -> FALSE
      [] IsFinite(x) /\ IsFinite(y) -> x.v > y.v
      [] x.k = "inf"                -> y.k # "inf"
      [] x.k = "ninf"               -> FALSE
      [] OTHER                      -> y.k = "ninf"

\* abs(x)
FAbs(x) ==
    CASE x.k = "fin"  -> Fin(IF x.v < 0 THEN 0 - x.v ELSE x.v)
      [] x.k = "ninf" -> PosInf
      [] OTHER        -> x

(***************************************************************************)
(* Geometry: shapely points, their WKB encoding and the validity checks the *)
(* builders apply to a decoded centroid.                                    *)
(***************************************************************************)
Point(x, y) == [empty |-> FALSE, x |-> x, y |-> y]
PointEmpty  == [empty |-> TRUE, x |-> NaN, y |-> NaN]

\* shapely.to_wkb / Point.wkb: the two doubles; an empty point is written as
\* NaN NaN.
to_wkb(g) == IF g.empty THEN <<NaN, NaN>> ELSE <<g.x, g.y>>

\* shapely.from_wkb: a point whose two ordinates are NaN reads back as
\* POINT EMPTY.
from_wkb(w) ==
    IF IsNaN(w[1]) /\ IsNaN(w[2]) THEN PointEmpty ELSE Point(w[1], w[2])

\* shapely.is_valid: an empty geometry is valid; a point is valid iff both
\* ordinates are finite.
is_valid(g) == g.empty \/ (IsFinite(g.x) /\ IsFinite(g.y))

\* geom.bounds: (minx, miny, maxx, maxy); all NaN for an empty geometry.
bounds(g) == IF g.empty THEN <<NaN, NaN, NaN, NaN>> ELSE <<g.x, g.y, g.x, g.y>>

\* np.isinf(b).any()
isinf_any(b) == \E i \in DOMAIN b : IsInf(b[i])

(***************************************************************************)
(* Names: a string is the tuple of its characters, so that prefixes, digit  *)
(* runs and the lexicographic order Python's sorted() uses can be computed. *)
(***************************************************************************)
\* The characters used, in code point order.
Chars == <<"-", ".", "0", "1", "2", "3", "4", "5", "6", "7", "8", "9", "A",
           "B", "C", "D", "E", "F", "G", "H", "I", "J", "K", "L", "M", "N",
           "O", "P", "Q", "R", "S", "T", "U", "V", "W", "X", "Y", "Z", "_",
           "a", "b", "c", "d", "e", "f", "g", "h", "i", "j", "k", "l", "m",
           "n", "o", "p", "q", "r", "s", "t", "u", "v", "w", "x", "y", "z">>
Digits == {"0", "1", "2", "3", "4", "5", "6", "7", "8", "9"}

\* ord(c), tabulated for the characters used.
OrdTable == [c \in Range(Chars) |-> CHOOSE i \in DOMAIN Chars : Chars[i] = c]

Ord(c) == OrdTable[c]

\* a < b for two strings (str.__lt__).
StrLess(a, b) ==
    \E i \in 1..(Min(Len(a), Len(b)) + 1) :
        /\ \A j \in 1..(i - 1) : a[j] = b[j]
        /\ i <= Len(b)
        /\ (i > Len(a) \/ Ord(a[i]) < Ord(b[i]))

\* p < q for two paths (PurePath.__lt__): the lists of parts are compared.
PathLess(p, q) ==
    \E i \in 1..(Min(Len(p), Len(q)) + 1) :
        /\ \A j \in 1..(i - 1) : p[j] = q[j]
        /\ i <= Len(q)
        /\ (i > Len(p) \/ StrLess(p[i], q[i]))

\* The entries left in the order in which the file system listed them.
SortedEntries_Unsorted(q) == q

\* The entries sorted by their last part only, whatever directory holds them.
RECURSIVE SortedEntries_ByName(_)
SortedEntries_ByName(q) ==
    IF q = <<>> THEN <<>>
    ELSE LET last(e) == e.path[Len(e.path)]
             i == CHOOSE i \in DOMAIN q :
                      /\ \A j \in DOMAIN q : ~StrLess(last(q[j]), last(q[i]))
                      /\ \A j \in 1..(i - 1) : StrLess(last(q[i]), last(q[j]))
             rest == [k \in 1..(Len(q) - 1) |-> IF k < i THEN q[k] ELSE q[k + 1]]
         IN  <<q[i]>> \o SortedEntries_ByName(rest)

\* sorted(paths): a list of directory entries, ascending by path (a stable
\* selection of the least remaining entry).
RECURSIVE SortedEntries(_)
SortedEntries(q) ==
    IF q = <<>> THEN <<>>
    ELSE LET i == CHOOSE i \in DOMAIN q :
                      /\ \A j \in DOMAIN q : ~PathLess(q[j].path, q[i].path)
                      /\ \A j \in 1..(i - 1) : PathLess(q[i].path, q[j].path)
             rest == [k \in 1..(Len(q) - 1) |-> IF k < i THEN q[k] ELSE q[k + 1]]
         IN  <<q[i]>> \o SortedEntries(rest)

StartsWith(name, prefix) ==
    /\ Len(name) >= Len(prefix)
    /\ SubSeq(name, 1, Len(prefix)) = prefix

EndsWith(name, suffix) ==
    /\ Len(name) >= Len(suffix)
    /\ SubSeq(name, Len(name) - Len(suffix) + 1, Len(name)) = suffix

\* Path.name: the last part.
Name(path) == path[Len(path)]

\* Path.stem: the name without its last suffix.
Stem(name) ==
    LET dots == {i \in 2..Len(name) : name[i] = "."}
    IN  IF dots = {} \/ name[Len(name)] = "." THEN name
        ELSE SubSeq(name, 1, (CHOOSE i \in dots : \A j \in dots : j <= i) - 1)

\* seq[:count] (Python slicing: a negative count drops from the end).
PySlice(seq, count) ==
    IF count >= 0 THEN SubSeq(seq, 1, Min(count, Len(seq)))
    ELSE SubSeq(seq, 1, Max(0, Len(seq) + count))

\* int(x) of the quotient a / b, b > 0: truncation towards zero.
Trunc(a, b) == IF a >= 0 THEN a \div b ELSE 0 - ((0 - a) \div b)

\* [x for x in seq if x in keep]
RECURSIVE FilterSeq(_, _)
FilterSeq(seq, keep) ==
    IF seq = <<>> THEN <<>>
    ELSE (IF Head(seq) \in keep THEN <<Head(seq)>> ELSE <<>>)
         \o FilterSeq(Tail(seq), keep)

(***************************************************************************)
(* Context enumeration: load_contexts of the six metadata.py files.         *)
(***************************************************************************)
MaxEntries == 3

S_G16        == <<"G", "1", "6", "_">>
S_MSG        == <<"M", "S", "G">>
S_tif        == <<".", "t", "i", "f">>
S_himawari   == <<"h", "i", "m", "a", "w", "a", "r", "i">>
S_cyclones   == <<"c", "y", "c", "l", "o", "n", "e", "s">>
S_msg        == <<"m", "s", "g">>

Dir(name)   == [path |-> <<name>>, isdir |-> TRUE]
File(path)  == [path |-> path, isdir |-> FALSE]

\* What a scanned ROOT_PATH / DATA_DIR may hold (finetune variants).
RootUniverse ==
    { Dir(<<"G", "1", "6", "_", "a">>),
      Dir(<<"G", "1", "6", "_", "b", "_", "n", "o", "_", "f", "l", "x", "h", "r">>),
      Dir(<<"2", "0", "1", "9", "0", "1", "0", "1", "_", "a">>),
      Dir(<<"M", "S", "G", "1", "_", "2", "0", "0", "6", "0", "6", "1", "3", "0", "0", "1", "2", "4", "0", "_", "C", "S">>),
      Dir(<<"M", "S", "G", "x">>),
      Dir(<<"H", "0", "8", "_", "a">>),
      File(<<<<"G", "1", "6", "_", "c", ".", "t", "x", "t">>>>) }

\* What the pretraining geotiff root may hold, as paths below it.
TifUniverse ==
    { File(<<S_himawari, <<"b", ".", "t", "i", "f">>>>),
      File(<<S_himawari, <<"s">>, <<"a", ".", "t", "i", "f">>>>),
      File(<<S_himawari, <<"n", ".", "t", "x", "t">>>>),
      File(<<S_cyclones, S_himawari, <<"c", ".", "t", "i", "f">>>>),
      File(<<S_msg, <<"m", ".", "t", "i", "f">>>>),
      File(<<S_msg, <<"s">>, <<"a", ".", "t", "i", "f">>>>),
      File(<<S_msg, <<"m", ".", "t", "x", "t">>>>) }

LoadVariants ==
    {"ft_goes", "ft_cyclone", "ft_msi", "ft_himawari", "pre_himawari", "pre_msi"}

Universe(v) ==
    IF v \in {"pre_himawari", "pre_msi"} THEN TifUniverse ELSE RootUniverse

\* The limit argument: None, a float num/den (den a power of two, so that
\* len * limit is exact) or an int (num, den = 1).
LimitNone     == [kind |-> "none", num |-> 0, den |-> 1]
LimitFloat(n) == [kind |-> "float", num |-> n, den |-> 4]
LimitInt(n)   == [kind |-> "int", num |-> n, den |-> 1]

Limits ==
    {LimitNone}
    \cup {LimitFloat(n) : n \in {-2, 0, 1, 2, 3, 4, 6}}
    \cup {LimitInt(n) : n \in -1..(MaxEntries + 1)}

\* The sequences without repetition of at most n elements of S.
SeqsDistinct(S, n) ==
    {q \in UNION {[1..k -> S] : k \in 0..n} :
        \A i, j \in DOMAIN q : i # j => q[i] # q[j]}

Ctx(ident, path, sat) == [id |-> ident, path |-> path, satellite_type |-> sat]
Returned(ctxs) == [kind |-> "ok", ctxs |-> ctxs]
LoadRaised     == [kind |-> "raise", ctxs |-> <<>>]

\* ROOT.glob(pattern) / ROOT.iterdir(): the entries directly under the root,
\* in the order in which the file system lists them.
IterDir(fs) == FilterSeq(fs, {e \in Range(fs) : Len(e.path) = 1})

\* root.rglob("*.tif"): every entry below root whose name ends in .tif, in
\* the order in which the file system lists them.
RGlobTif(fs, root) ==
    FilterSeq(fs, {e \in Range(fs) :
                      /\ Len(e.path) > Len(root)
                      /\ SubSeq(e.path, 1, Len(root)) = root
                      /\ EndsWith(Name(e.path), S_tif)})

\* The limit with the fractional count rounded up instead of truncated.
ApplyLimit_Ceil(ctxs, lim) ==
    IF lim.kind = "none" THEN ctxs
    ELSE IF lim.kind = "float" THEN
        LET c0    == 0 - ((0 - Len(ctxs) * lim.num) \div lim.den)
            count == IF c0 = 0 THEN 1 ELSE c0
        IN  PySlice(ctxs, count)
    ELSE PySlice(ctxs, lim.num)

\* The "Apply limit" tail shared by five of the six variants.
ApplyLimit(ctxs, lim) ==
    IF lim.kind = "none" THEN ctxs
    ELSE IF lim.kind = "float" THEN
        LET c0    == Trunc(Len(ctxs) * lim.num, lim.den)
            count == IF c0 = 0 THEN 1 ELSE c0
        IN  PySlice(ctxs, count)
    ELSE PySlice(ctxs, lim.num)

\* The finetune msi variant's limit, applied to the sorted directories.
ApplyLimitMsi(dirs, lim) ==
    IF lim.kind # "none" THEN
        IF lim.kind = "float" /\ 0 < lim.num /\ lim.num < lim.den THEN
            PySlice(dirs, Trunc(Len(dirs) * lim.num, lim.den))
        ELSE IF lim.kind = "int" /\ lim.num > 0 THEN
            PySlice(dirs, lim.num)
        ELSE dirs
    ELSE dirs

NameOf(e) == Name(e.path)
StemOf(e) == Stem(Name(e.path))
NoSat(e)  == "n/a"

\* ids are the directory names; the contexts carry no satellite_type.
CtxsByName(entries) ==
    [i \in DOMAIN entries |->
        Ctx(NameOf(entries[i]), entries[i].path, NoSat(entries[i]))]

\* ids are the file stems; the contexts carry no satellite_type.
CtxsByStem(entries) ==
    [i \in DOMAIN entries |->
        Ctx(StemOf(entries[i]), entries[i].path, NoSat(entries[i]))]

\* ^\d{8}_
MatchesHimawariPattern(name) ==
    /\ Len(name) >= 9
    /\ \A i \in 1..8 : name[i] \in Digits
    /\ name[9] = "_"

\* A detection that takes every other folder name for a Himawari sample.
detect_satellite_Lenient(folder_name) ==
    IF StartsWith(folder_name, S_G16) THEN "GOES-16" ELSE "Himawari"

\* detect_satellite; "raise" stands for the ValueError.
detect_satellite(folder_name) ==
    IF StartsWith(folder_name, S_G16) THEN "GOES-16"
    ELSE IF MatchesHimawariPattern(folder_name) THEN "Himawari"
    ELSE "raise"

SatOf(e) == detect_satellite(Name(e.path))

\* ids are the folder names; satellite_type is detected from the name.
CtxsBySat(entries) ==
    [i \in DOMAIN entries |->
        Ctx(NameOf(entries[i]), entries[i].path, SatOf(entries[i]))]

load_contexts_ft_goes(fs, lim) ==
    LET listed    == IterDir(fs)
        goes_dirs ==
            SortedEntries(FilterSeq(listed, {e \in Range(listed) :
                                                StartsWith(Name(e.path), S_G16)}))
        dirs      == FilterSeq(goes_dirs, {e \in Range(goes_dirs) : e.isdir})
    IN  Returned(ApplyLimit(CtxsByName(dirs), lim))

load_contexts_ft_himawari(fs, lim) ==
    LET himawari_dirs == SortedEntries(IterDir(fs))
        dirs == FilterSeq(himawari_dirs, {e \in Range(himawari_dirs) : e.isdir})
    IN  Returned(ApplyLimit(CtxsByName(dirs), lim))

load_contexts_ft_msi(fs, lim) ==
    LET listed == IterDir(fs)
        sample_dirs ==
            SortedEntries(FilterSeq(listed, {e \in Range(listed) :
                              e.isdir /\ StartsWith(Name(e.path), S_MSG)}))
    IN  Returned(CtxsByName(ApplyLimitMsi(sample_dirs, lim)))

load_contexts_ft_cyclone(fs, lim) ==
    LET folders == SortedEntries(IterDir(fs))
        dirs    == FilterSeq(folders, {e \in Range(folders) : e.isdir})
    IN  IF \E e \in Range(dirs) : SatOf(e) = "raise" THEN LoadRaised
        ELSE Returned(ApplyLimit(CtxsBySat(dirs), lim))

load_contexts_pre_himawari(fs, lim) ==
    LET tif_files ==
            SortedEntries(RGlobTif(fs, <<S_himawari>>)
                          \o RGlobTif(fs, <<S_cyclones, S_himawari>>))
    IN  Returned(ApplyLimit(CtxsByStem(tif_files), lim))

load_contexts_pre_msi(fs, lim) ==
    LET tif_files == SortedEntries(RGlobTif(fs, <<S_msg>>))
    IN  Returned(ApplyLimit(CtxsByStem(tif_files), lim))

(***************************************************************************)
(* Idle values of the variables a specification does not use.               *)
(***************************************************************************)
SplitIdle ==
    /\ timestamp_us = [s |-> 0, us |-> 0]
    /\ tz = 0
    /\ split = "pending"

ParseIdle ==
    /\ sample_id = <<>>
    /\ parsed_ts = <<>>
    /\ split_label = "pending"

Level1Idle ==
    /\ l1variant = "none"
    /\ l1ctx = [id |-> <<>>, path_is_bytes |-> FALSE, files |-> {}]
    /\ l1samples = <<>>
    /\ l1ret = [kind |-> "none", samples |-> <<>>]

LoadIdle ==
    /\ lvariant = "none"
    /\ listing = <<>>
    /\ limit = LimitNone
    /\ loaded = [kind |-> "pending", ctxs |-> <<>>]

BuildIdle ==
    /\ variant = "none"
    /\ contexts = <<>>
    /\ parallel = FALSE
    /\ pc = "idle"
    /\ task = <<>>
    /\ calls = <<>>
    /\ results = <<>>
    /\ cursor = 0
    /\ order = <<>>
    /\ samples = <<>>
    /\ failed_ids = <<>>
    /\ printed = {}
    /\ ret = [kind |-> "none", samples |-> <<>>]

(***************************************************************************)
(* Record builders: build_sample of the four level0.py files.               *)
(*                                                                         *)
(* A context environment is the context dict together with everything the   *)
(* builder reads for it from outside: whether the raster files open, the    *)
(* acquisition_time tag, the reprojected corners or the centroid the STAC   *)
(* extension derives, and the *_global.json side-channel record.            *)
(***************************************************************************)
MaxCtx == 2

NA == [k |-> "n/a", v |-> 0]

DateTime(y, mo, d, h, mi, sec) ==
    [year |-> y, month |-> mo, day |-> d, hour |-> h, minute |-> mi,
     second |-> sec, microsecond |-> 0]

NoTime == [present |-> FALSE, dt |-> DateTime(1970, 1, 1, 0, 0, 0)]
TimeAt(dt) == [present |-> TRUE, dt |-> dt]

NoTimestamp == [s |-> 0 - 1, us |-> 0]

\* int(digits)
RECURSIVE Num(_)
Num(ds) ==
    IF ds = <<>> THEN 0
    ELSE 10 * Num(SubSeq(ds, 1, Len(ds) - 1)) + (Ord(ds[Len(ds)]) - Ord("0"))

\* The length of the run of digits of name that starts at position from.
RECURSIVE DigitRun(_, _)
DigitRun(name, from) ==
    IF from <= Len(name) /\ name[from] \in Digits
    THEN 1 + DigitRun(name, from + 1)
    ELSE 0

IsLeap(y) == (y % 4 = 0 /\ y % 100 # 0) \/ y % 400 = 0

DaysInMonth(y, m) ==
    IF m = 2 THEN (IF IsLeap(y) THEN 29 ELSE 28)
    ELSE IF m \in {4, 6, 9, 11} THEN 30 ELSE 31

\* re.match(r"MSG\d+_(\d{14})_", dirname): the captured group, <<>> if none.
MatchMsgDirname(dirname) ==
    LET k == DigitRun(dirname, 4)
        g == 4 + k + 1
    IN  IF /\ StartsWith(dirname, S_MSG)
           /\ k >= 1
           /\ Len(dirname) >= g + 14
           /\ dirname[4 + k] = "_"
           /\ \A i \in g..(g + 13) : dirname[i] \in Digits
           /\ dirname[g + 14] = "_"
        THEN SubSeq(dirname, g, g + 13)
        ELSE <<>>

\* datetime.strptime(timestamp_str, "%Y%m%d%H%M%S"); present = FALSE stands
\* for the ValueError.
Strptime14(str) ==
    LET y  == Num(SubSeq(str, 1, 4))
        mo == Num(SubSeq(str, 5, 6))
        d  == Num(SubSeq(str, 7, 8))
        h  == Num(SubSeq(str, 9, 10))
        mi == Num(SubSeq(str, 11, 12))
        sec == Num(SubSeq(str, 13, 14))
    IN  IF /\ y >= 1
           /\ mo \in 1..12
           /\ d >= 1 /\ d <= DaysInMonth(y, mo)
           /\ h <= 23 /\ mi <= 59 /\ sec <= 59
        THEN TimeAt(DateTime(y, mo, d, h, mi, sec))
        ELSE NoTime

\* A parser that takes the digits of the name for a UTC time, whatever the
\* local time zone.
parse_timestamp_from_dirname_Utc(dirname, offset) ==
    LET str == MatchMsgDirname(dirname)
        dt  == IF str = <<>> THEN NoTime ELSE Strptime14(str)
    IN  IF dt.present
        THEN [ok |-> TRUE, t |-> ToTimestampUs(dt.dt, 0)]
        ELSE [ok |-> FALSE, t |-> NoTimestamp]

\* parse_timestamp_from_dirname (finetune msi); ok = FALSE stands for the
\* ValueError.
\* (The matched string and the datetime are bound once, as the elements of
\* singleton sets, so that they are computed once per call.)
parse_timestamp_from_dirname(dirname, offset) ==
    LET strptime(str) == IF str = <<>> THEN NoTime ELSE Strptime14(str)
        timestamp(dt) == IF dt.present
                         THEN [ok |-> TRUE, t |-> ToTimestampUs(dt.dt, offset)]
                         ELSE [ok |-> FALSE, t |-> NoTimestamp]
    IN  CHOOSE r \in {timestamp(dt) :
                         dt \in {strptime(str) : str \in {MatchMsgDirname(dirname)}}} :
            TRUE

\* ---- the inputs --------------------------------------------------------
BuildVariants == {"pre_msi", "ft_himawari", "ft_msi", "ft_cyclone"}

\* The identifiers of the contexts. Only the finetune msi builder reads the
\* identifier (it parses the timestamp from it), so only there does a list
\* draw its identifiers freely; elsewhere the i-th context has the i-th name.
MsgNames ==
    {<<"M", "S", "G", "1", "_", "2", "0", "0", "6", "0", "6", "1", "3", "0", "0", "1", "2", "4", "0", "_", "C", "S">>,
     <<"M", "S", "G", "1", "_", "2", "0", "0", "6", "0", "6", "2", "8", "0", "0", "0", "0", "0", "0", "_", "C", "S">>,
     <<"M", "S", "G", "x">>}

IdOrder(v) ==
    CASE v = "pre_msi" ->
            <<<<"a">>, <<"b">>, <<"c">>, <<"d">>>>
      [] v = "ft_himawari" ->
            <<<<"H", "0", "8", "_", "a">>, <<"H", "0", "8", "_", "b">>, <<"H", "0", "8", "_", "c">>, <<"H", "0", "8", "_", "d">>>>
      [] OTHER ->
            <<<<"2", "0", "1", "9", "0", "1", "0", "1", "_", "a">>, <<"G", "1", "6", "_", "a">>, <<"G", "1", "6", "_", "b", "_", "n", "o", "_", "f", "l", "x", "h", "r">>, <<"G", "1", "6", "_", "c">>>>

IdLists(v, k) ==
    IF v = "ft_msi" THEN {q \in SeqsDistinct(MsgNames, k) : Len(q) = k}
    ELSE IF k <= Len(IdOrder(v)) THEN {SubSeq(IdOrder(v), 1, k)}
    ELSE {}

FinCornerLB == <<Fin(0 - 20), Fin(0 - 10)>>
FinCornerRT == <<Fin(20), Fin(10)>>
InfCorner   == <<PosInf, PosInf>>
NaNCorner   == <<NaN, NaN>>

\* Centroids the STAC extension may derive from crs, geotransform and shape.
AutoCentroids ==
    {<<Fin(0), Fin(0)>>, <<PosInf, PosInf>>, <<NegInf, Fin(0)>>,
     <<NaN, NaN>>, <<NaN, Fin(0)>>}

TagTimes == {TimeAt(DateTime(2024, 1, 15, 0, 0, 0))}
StartTimes == {TimeAt(DateTime(2019, 1, 1, 3, 0, 0))}

\* A key the side-channel record does not have, and a key whose value is the
\* JSON null.
Absent   == [k |-> "absent", v |-> 0]
JsonNull == [k |-> "null", v |-> 0]

\* The nominal environment: every file readable, tag and side-channel record
\* present, finite geometry.
Nominal ==
    [files |-> "ok", tag |-> CHOOSE t \in TagTimes : TRUE,
     corner_lb |-> FinCornerLB, corner_rt |-> FinCornerRT,
     auto_centroid |-> <<Fin(0), Fin(0)>>,
     json |-> "full", LON |-> Fin(20), LAT |-> Fin(10),
     abs_delta_t_s |-> Fin(30), delta_t |-> Absent,
     start |-> CHOOSE t \in StartTimes : TRUE]

\* json: "absent" (no *_global.json), "full" (every key the builders read),
\* "no_filenames" (attributes without satellite_filename / cloudsat_filename),
\* "no_latlon" (attributes without LAT and LON), "no_lat" and "no_lon"
\* (attributes without the one key).
EnvsOf(v) ==
    CASE v = "pre_msi" ->
            {[Nominal EXCEPT !.corner_lb = lb, !.corner_rt = rt] :
                lb \in {FinCornerLB, InfCorner, NaNCorner},
                rt \in {FinCornerRT, InfCorner}}
            \cup {[Nominal EXCEPT !.files = "missing"], [Nominal EXCEPT !.tag = NoTime]}
      [] v \in {"ft_himawari", "ft_msi"} ->
            {[Nominal EXCEPT !.auto_centroid = c] : c \in AutoCentroids}
            \cup {[Nominal EXCEPT !.files = "missing"],
                  [Nominal EXCEPT !.json = "absent"]}
            \cup (IF v = "ft_himawari" THEN {[Nominal EXCEPT !.tag = NoTime]} ELSE {})
      [] OTHER ->
            {[Nominal EXCEPT !.LON = x] :
                x \in {Fin(20), Fin(200), Fin(0 - 170), Fin(0 - 200), Fin(600),
                       PosInf, NaN}}
            \cup {[Nominal EXCEPT !.files = "missing"],
                  [Nominal EXCEPT !.json = "absent"],
                  [Nominal EXCEPT !.json = "no_latlon"],
                  [Nominal EXCEPT !.start = NoTime]}

\* A context: its id (and, for the cyclone variant, the satellite_type that
\* load_contexts derived from it) and its environment.
Context(v, ident, env) ==
    [id |-> ident,
     satellite_type |-> IF v = "ft_cyclone" THEN detect_satellite(ident) ELSE "n/a",
     env |-> env]

ContextLists(v) ==
    {[i \in DOMAIN ids |-> Context(v, ids[i], envs[i])] :
        <<ids, envs>> \in
            UNION {IdLists(v, k) \X [1..k -> EnvsOf(v)] : k \in 0..MaxCtx}}

\* ---- the outputs -------------------------------------------------------
NoSample ==
    [id |-> <<>>, centroid |-> <<NaN, NaN>>, time_start |-> NoTimestamp,
     time_end |-> NoTimestamp,
     split |-> "n/a", satellite |-> "n/a", center_lon |-> NA, center_lat |-> NA,
     delta_t_seconds |-> NA, crs |-> "n/a"]

\* A record whose identifier lost its last character.
NewSample_ShortId(ident, centroid, t, tend, label, sat, clon, clat) ==
    [id |-> SubSeq(ident, 1, Len(ident) - 1), centroid |-> centroid,
     time_start |-> t, time_end |-> tend, split |-> label, satellite |-> sat,
     center_lon |-> clon,
     center_lat |-> clat, delta_t_seconds |-> NA, crs |-> "n/a"]

\* The fields of an emitted Sample that the properties read; NoTimestamp as
\* time_end stands for a time_end that was not passed to STAC.
NewSample(ident, centroid, t, tend, label, sat, clon, clat) ==
    [id |-> ident, centroid |-> centroid, time_start |-> t, time_end |-> tend,
     split |-> label,
     satellite |-> sat, center_lon |-> clon, center_lat |-> clat,
     delta_t_seconds |-> NA, crs |-> "n/a"]

\* What one call of the builder gives: a Sample ("sample"), None ("none"),
\* the (None, (id, reason)) pair of the pretraining msi wrapper ("error"), or
\* an exception leaving the builder ("raise").
Built(sample)         == [kind |-> "sample", sample |-> sample, reason |-> ""]
ReturnedNone(reason)  == [kind |-> "none", sample |-> NoSample, reason |-> reason]
ErrorPair(reason)     == [kind |-> "error", sample |-> NoSample, reason |-> reason]
Raised(reason)        == [kind |-> "raise", sample |-> NoSample, reason |-> reason]
NoOutcome             == [kind |-> "pending", sample |-> NoSample, reason |-> ""]

\* Idle values of the variables of SpecCyclone.
CycloneIdle ==
    /\ cyc_folder = [name |-> <<>>, env |-> Nominal]
    /\ cyc_ctx = <<>>
    /\ cyc_out = NoOutcome

\* ---- pretraining msi ---------------------------------------------------
\* build_sample_msg: the centroid is the midpoint of the two reprojected
\* corners; the timestamp comes from the acquisition_time tag.
build_sample_msg(ctx, offset) ==
    LET e            == ctx.env
        centroid_lon == FHalf(FAdd(e.corner_lb[1], e.corner_rt[1]))
        centroid_lat == FHalf(FAdd(e.corner_lb[2], e.corner_rt[2]))
        centroid_wkb == to_wkb(Point(centroid_lon, centroid_lat))
    IN  IF e.files = "missing" THEN Raised("cannot open raster")
        ELSE IF ~e.tag.present THEN Raised("KeyError: acquisition_time")
        ELSE LET acquisition_time_us == ToTimestampUs(e.tag.dt, offset)
             IN  Built(NewSample(ctx.id, centroid_wkb, acquisition_time_us,
                                 acquisition_time_us, "n/a", "MSG", NA, NA))

\* _build_samples_parallel: the builder, the geometry validation and the
\* catch-all that turns an exception into (None, (id, str(e))).
build_samples_parallel(ctx, offset) ==
    LET r == build_sample_msg(ctx, offset)
    IN  IF r.kind = "raise" THEN ErrorPair(r.reason)
        ELSE LET geom == from_wkb(r.sample.centroid)
             IN  IF ~is_valid(geom) THEN ErrorPair("Invalid geometry")
                 ELSE IF isinf_any(bounds(geom)) THEN ErrorPair("Infinite bounds")
                 ELSE r

\* ---- finetune himawari and finetune msi --------------------------------
\* The part the two build_sample functions share once the timestamp is
\* known: STAC metadata, geometry validation, split, Cloud3DMetadata.
FinetuneTail(ctx, t, sat, offset) ==
    LET e    == ctx.env
        geom == from_wkb(e.auto_centroid)
    IN  IF ~is_valid(geom) \/ isinf_any(bounds(geom))
        THEN ReturnedNone("Invalid geometry")
        ELSE IF e.json = "absent" THEN ReturnedNone("FileNotFoundError: *_global.json")
        ELSE IF e.json = "no_filenames" THEN ReturnedNone("KeyError: satellite_filename")
        ELSE Built(NewSample(ctx.id, e.auto_centroid, t, t,
                             determine_split(t, offset), sat, NA, NA))

\* The finetune builder without its try/except around the side-channel read.
build_sample_himawari_NoCatch(ctx, offset) ==
    LET e == ctx.env
    IN  IF e.files = "missing" THEN ReturnedNone("cannot open raster")
        ELSE IF ~e.tag.present THEN ReturnedNone("KeyError: acquisition_time")
        ELSE IF e.json = "absent" THEN Raised("FileNotFoundError: *_global.json")
        ELSE FinetuneTail(ctx, ToTimestampUs(e.tag.dt, offset), "Himawari", offset)

build_sample_himawari(ctx, offset) ==
    LET e == ctx.env
    IN  IF e.files = "missing" THEN ReturnedNone("cannot open raster")
        ELSE IF ~e.tag.present THEN ReturnedNone("KeyError: acquisition_time")
        ELSE FinetuneTail(ctx, ToTimestampUs(e.tag.dt, offset), "Himawari", offset)

\* A builder that opens the raster before it parses the folder name.
build_sample_msi_RasterFirst(ctx, offset) ==
    LET e == ctx.env
        rest(parsed) ==
            IF e.files = "missing" THEN ReturnedNone("cannot open raster")
            ELSE IF ~parsed.ok THEN ReturnedNone("ValueError: cannot parse timestamp")
            ELSE FinetuneTail(ctx, parsed.t, "MSG", offset)
    IN  CHOOSE r \in {rest(parsed) :
                         parsed \in {parse_timestamp_from_dirname(ctx.id, offset)}} :
            TRUE

\* (The parsed timestamp is bound once, as the element of a singleton set.)
build_sample_msi(ctx, offset) ==
    LET e == ctx.env
        rest(parsed) ==
            IF ~parsed.ok THEN ReturnedNone("ValueError: cannot parse timestamp")
            ELSE IF e.files = "missing" THEN ReturnedNone("cannot open raster")
            ELSE FinetuneTail(ctx, parsed.t, "MSG", offset)
    IN  CHOOSE r \in {rest(parsed) :
                         parsed \in {parse_timestamp_from_dirname(ctx.id, offset)}} :
            TRUE

\* ---- finetune cyclone --------------------------------------------------
\* A normalisation that leaves every longitude as it is.
NormalizeLon_Identity(lon) == lon

\* The longitude normalisation of build_sample and of
\* Cloud3DCycloneMetadata.from_directory: if lon > 180: lon = lon - 360.
NormalizeLon(lon) == IF FGt(lon, Fin(180)) THEN FSub(lon, Fin(360)) ELSE lon

\* get_geostationary_crs: the PROJ string handed to STAC.
CRS_GOES     == "+proj=geos +h=35786023 +a=6378137 +b=6356752.31414 +f=0.00335281066474748 +lat_0=0 +lon_0=-75 +sweep=x +no_defs"
CRS_HIMAWARI == "+proj=geos +h=35786023 +a=6378137 +b=6356752.31414 +f=0.00335281066474748 +lat_0=0 +lon_0=140.7 +sweep=y +no_defs"

\* A projection that does not look at the satellite type.
get_geostationary_crs_AlwaysGoes(satellite_type) == CRS_GOES

get_geostationary_crs(satellite_type) ==
    IF satellite_type = "GOES-16" THEN CRS_GOES ELSE CRS_HIMAWARI

CycloneMeta(lat, lon, dt) ==
    [ok |-> TRUE, reason |-> "", center_lat |-> lat, center_lon |-> lon,
     delta_t_seconds |-> dt]
CycloneMetaRaised(reason) ==
    [ok |-> FALSE, reason |-> reason, center_lat |-> NA, center_lon |-> NA,
     delta_t_seconds |-> NA]

\* attrs.get("abs_delta_t_s", attrs.get("delta_t", 0))
DeltaTOf(e) ==
    IF e.abs_delta_t_s # Absent THEN e.abs_delta_t_s
    ELSE IF e.delta_t # Absent THEN e.delta_t
    ELSE Fin(0)

\* A from_directory that stores the longitude as the record has it.
Cloud3DCycloneMetadata_from_directory_RawLon(e) ==
    IF e.json = "absent" THEN CycloneMetaRaised("FileNotFoundError: *_global.json")
    ELSE IF e.json \in {"no_latlon", "no_lon"} THEN CycloneMetaRaised("KeyError: LON")
    ELSE IF e.json = "no_lat" THEN CycloneMetaRaised("KeyError: LAT")
    ELSE IF DeltaTOf(e) = JsonNull THEN CycloneMetaRaised("TypeError: abs()")
    ELSE CycloneMeta(e.LAT, e.LON, FAbs(DeltaTOf(e)))

\* Cloud3DCycloneMetadata.from_directory: attrs["LON"] is read first, then
\* the keyword arguments in order (LAT, the normalised lon, the delta).
Cloud3DCycloneMetadata_from_directory(e) ==
    IF e.json = "absent" THEN CycloneMetaRaised("FileNotFoundError: *_global.json")
    ELSE IF e.json \in {"no_latlon", "no_lon"} THEN CycloneMetaRaised("KeyError: LON")
    ELSE IF e.json = "no_lat" THEN CycloneMetaRaised("KeyError: LAT")
    ELSE IF DeltaTOf(e) = JsonNull THEN CycloneMetaRaised("TypeError: abs()")
    ELSE CycloneMeta(e.LAT, NormalizeLon(e.LON), FAbs(DeltaTOf(e)))

\* build_sample: no try/except and no geometry validation; the centroid is
\* the storm centre read from the side-channel record when it has both LAT
\* and LON (STAC is given None otherwise, and from_directory then raises).
build_sample_cyclone(ctx, offset) ==
    LET e         == ctx.env
        lon       == NormalizeLon(e.LON)
        satellite == IF ctx.satellite_type = "GOES-16" THEN "GOES" ELSE "Himawari"
        cyclone   == Cloud3DCycloneMetadata_from_directory(e)
    IN  IF e.files = "missing" THEN Raised("FileNotFoundError: geo_patch.tif")
        ELSE IF ~e.start.present THEN Raised("ValidationError: time_start")
        ELSE IF e.json = "absent" THEN Raised("FileNotFoundError: *_global.json")
        ELSE IF e.json = "no_filenames" THEN Raised("KeyError: satellite_filename")
        ELSE IF ~cyclone.ok THEN Raised(cyclone.reason)
        ELSE Built([NewSample(ctx.id, to_wkb(Point(lon, e.LAT)),
                              ToTimestampUs(e.start.dt, offset), NoTimestamp,
                              "n/a", satellite, cyclone.center_lon,
                              cyclone.center_lat)
                       EXCEPT !.delta_t_seconds = cyclone.delta_t_seconds,
                              !.crs = get_geostationary_crs(ctx.satellite_type)])

\* The builder a variant's build() maps over the contexts.
BuildOne(v, ctx, offset) ==
    CASE v = "pre_msi"     -> build_samples_parallel(ctx, offset)
      [] v = "ft_himawari" -> build_sample_himawari(ctx, offset)
      [] v = "ft_msi"      -> build_sample_msi(ctx, offset)
      [] OTHER             -> build_sample_cyclone(ctx, offset)

\* What a worker prints while it builds: the finetune builders print the id
\* of a sample they give up on.
WorkerPrints(v, ctx, outcome) ==
    IF v \in {"ft_himawari", "ft_msi"} /\ outcome.kind = "none" THEN {ctx.id} ELSE {}

(***************************************************************************)
(* Spec: one call of build(contexts, parallel) of one variant.              *)
(***************************************************************************)
NCtx == Len(contexts)

Tortilla(ss) == [kind |-> "tortilla", samples |-> ss]
NotReturned  == [kind |-> "none", samples |-> <<>>]
Propagated   == [kind |-> "raised", samples |-> <<>>]

Init ==
    /\ variant \in BuildVariants
    /\ contexts \in ContextLists(variant)
    /\ parallel \in BOOLEAN
    /\ pc = "start"
    /\ task = [i \in 1..Len(contexts) |-> "idle"]
    /\ calls = [i \in 1..Len(contexts) |-> 0]
    /\ results = [i \in 1..Len(contexts) |-> NoOutcome]
    /\ cursor = 0
    /\ order = <<>>
    /\ samples = <<>>
    /\ failed_ids = <<>>
    /\ printed = {}
    /\ ret = NotReturned
    /\ timestamp_us = [s |-> 0, us |-> 0]
    /\ tz \in Offsets
    /\ split = "pending"
    /\ LoadIdle
    /\ ParseIdle
    /\ Level1Idle
    /\ CycloneIdle

\* The parallel branch is taken: every context is handed to the pool
\* (executor.map / pool.map / executor.submit for each context).
UsesPool ==
    parallel /\ (variant = "ft_cyclone" => Len(contexts) > 1)

StartParallel ==
    /\ pc = "start"
    /\ UsesPool
    /\ task' = [i \in 1..NCtx |-> "submitted"]
    /\ pc' = "pool"
    /\ UNCHANGED <<variant, contexts, parallel, calls, results, cursor, order, samples,
                   failed_ids, printed, ret, splitVars, loadVars,
                   parseVars, cycloneVars, level1Vars>>

StartSequential ==
    /\ pc = "start"
    /\ ~UsesPool
    /\ pc' = "seq"
    /\ UNCHANGED <<variant, contexts, parallel, calls, task, results, cursor, order,
                   samples, failed_ids, printed, ret, splitVars, loadVars,
                   parseVars, cycloneVars, level1Vars>>

\* A worker whose outcome depends on the other tasks: once some task has
\* failed, it gives that task's failure instead of building its own context.
WorkerRun_Shared(i) ==
    /\ pc \in {"pool", "draining"}
    /\ task[i] = "submitted"
    /\ LET failed == {j \in 1..NCtx : results[j].kind \notin {"pending", "sample"}}
           r == IF failed # {} THEN results[CHOOSE j \in failed : TRUE]
                ELSE BuildOne(variant, contexts[i], tz)
       IN  /\ results' = [results EXCEPT ![i] = r]
           /\ printed' = printed \cup WorkerPrints(variant, contexts[i], r)
    /\ task' = [task EXCEPT ![i] = "done"]
    /\ calls' = [calls EXCEPT ![i] = @ + 1]
    /\ UNCHANGED <<variant, contexts, parallel, pc, cursor, order, samples,
                   failed_ids, ret, splitVars, loadVars,
                   parseVars, cycloneVars, level1Vars>>

\* A worker that runs the builder a second time on a context that failed.
WorkerRun_Retry(i) ==
    /\ pc \in {"pool", "draining"}
    /\ task[i] = "submitted"
    /\ \E r \in {BuildOne(variant, contexts[i], tz)} :
           /\ results' = [results EXCEPT ![i] = r]
           /\ printed' = printed \cup WorkerPrints(variant, contexts[i], r)
           /\ task' = [task EXCEPT ![i] =
                          IF r.kind # "sample" /\ calls[i] = 0
                          THEN "submitted" ELSE "done"]
    /\ calls' = [calls EXCEPT ![i] = @ + 1]
    /\ UNCHANGED <<variant, contexts, parallel, pc, cursor, order, samples,
                   failed_ids, ret, splitVars, loadVars,
                   parseVars, cycloneVars, level1Vars>>

\* A submitted task can be run by a free worker of the pool: it waits for no
\* other task.
WorkerReady(i) ==
    /\ pc \in {"pool", "draining"}
    /\ task[i] = "submitted"

\* A worker process runs the builder on a submitted context. Nothing cancels
\* a submitted task: it also runs while an exception waits for the pool to
\* shut down.
WorkerRun(i) ==
    /\ WorkerReady(i)
    /\ \E r \in {BuildOne(variant, contexts[i], tz)} :
           /\ results' = [results EXCEPT ![i] = r]
           /\ printed' = printed \cup WorkerPrints(variant, contexts[i], r)
    /\ task' = [task EXCEPT ![i] = "done"]
    /\ calls' = [calls EXCEPT ![i] = @ + 1]
    /\ UNCHANGED <<variant, contexts, parallel, pc, cursor, order, samples,
                   failed_ids, ret, splitVars, loadVars,
                   parseVars, cycloneVars, level1Vars>>

AllDone == \A i \in 1..NCtx : task[i] = "done"

\* pretraining msi, parallel: list(executor.map(...)) is complete and the
\* pool has shut down; the aggregation loop starts.
\* finetune himawari / msi, parallel: pool.map has returned the list.
MapReturns ==
    /\ pc = "pool"
    /\ variant # "ft_cyclone"
    /\ AllDone
    /\ IF variant = "pre_msi"
       THEN /\ pc' = "aggregate"
            /\ UNCHANGED samples
       ELSE /\ pc' = "filter"
            /\ samples' = results
    /\ UNCHANGED <<variant, contexts, parallel, calls, task, results, cursor, order,
                   failed_ids, printed, ret, splitVars, loadVars,
                   parseVars, cycloneVars, level1Vars>>

\* An aggregation that prints a failure without recording its identifier.
Collect_PrintOnly(r, ident) ==
    IF r.kind = "error"
    THEN /\ printed' = printed \cup {ident}
         /\ UNCHANGED <<samples, failed_ids>>
    ELSE /\ samples' = Append(samples, r.sample)
         /\ UNCHANGED <<failed_ids, printed>>

\* An aggregation that throws away the records built before a failure.
Collect_DropsEarlier(r, ident) ==
    IF r.kind = "error"
    THEN /\ failed_ids' = Append(failed_ids, ident)
         /\ printed' = printed \cup {ident}
         /\ samples' = <<>>
    ELSE /\ samples' = Append(samples, r.sample)
         /\ UNCHANGED <<failed_ids, printed>>

\* pretraining msi: one iteration of "for result, error in results".
Collect(r, ident) ==
    IF r.kind = "error"
    THEN /\ failed_ids' = Append(failed_ids, ident)
         /\ printed' = printed \cup {ident}
         /\ UNCHANGED samples
    ELSE /\ samples' = Append(samples, r.sample)
         /\ UNCHANGED <<failed_ids, printed>>

Aggregate ==
    /\ pc = "aggregate"
    /\ cursor < NCtx
    /\ Collect(results[cursor + 1], contexts[cursor + 1].id)
    /\ cursor' = cursor + 1
    /\ UNCHANGED <<variant, contexts, parallel, calls, pc, task, results, order, ret,
                   splitVars, loadVars,
                   parseVars, cycloneVars, level1Vars>>

\* pretraining msi, sequential: one iteration of "for ctx in contexts".
SeqStepPreMsi ==
    /\ pc = "seq"
    /\ variant = "pre_msi"
    /\ cursor < NCtx
    /\ \E r \in {BuildOne(variant, contexts[cursor + 1], tz)} :
           /\ results' = [results EXCEPT ![cursor + 1] = r]
           /\ Collect(r, contexts[cursor + 1].id)
    /\ task' = [task EXCEPT ![cursor + 1] = "done"]
    /\ calls' = [calls EXCEPT ![cursor + 1] = @ + 1]
    /\ cursor' = cursor + 1
    /\ UNCHANGED <<variant, contexts, parallel, pc, order, ret, splitVars, loadVars,
                   parseVars, cycloneVars, level1Vars>>

\* pretraining msi: the loop is over; the totals are printed and the
\* Tortilla is returned.
ReturnPreMsi ==
    /\ pc \in {"aggregate", "seq"}
    /\ variant = "pre_msi"
    /\ cursor = NCtx
    /\ ret' = Tortilla(samples)
    /\ pc' = "done"
    /\ UNCHANGED <<variant, contexts, parallel, calls, task, results, cursor, order,
                   samples, failed_ids, printed, splitVars, loadVars,
                   parseVars, cycloneVars, level1Vars>>

\* A list comprehension that a failing builder cancels: the failure leaves
\* build() and the contexts after it are not built.
SeqStepFinetune_Cancels ==
    /\ pc = "seq"
    /\ variant \in {"ft_himawari", "ft_msi"}
    /\ cursor < NCtx
    /\ \E r \in {BuildOne(variant, contexts[cursor + 1], tz)} :
           /\ results' = [results EXCEPT ![cursor + 1] = r]
           /\ samples' = Append(samples, r)
           /\ printed' = printed \cup WorkerPrints(variant, contexts[cursor + 1], r)
           /\ IF r.kind = "sample"
              THEN UNCHANGED <<pc, ret>>
              ELSE pc' = "done" /\ ret' = Propagated
    /\ task' = [task EXCEPT ![cursor + 1] = "done"]
    /\ calls' = [calls EXCEPT ![cursor + 1] = @ + 1]
    /\ cursor' = cursor + 1
    /\ UNCHANGED <<variant, contexts, parallel, order, failed_ids, splitVars,
                   loadVars, parseVars, cycloneVars, level1Vars>>

\* finetune himawari / msi, sequential: one element of
\* [build_sample(ctx) for ctx in contexts].
SeqStepFinetune ==
    /\ pc = "seq"
    /\ variant \in {"ft_himawari", "ft_msi"}
    /\ cursor < NCtx
    /\ \E r \in {BuildOne(variant, contexts[cursor + 1], tz)} :
           /\ results' = [results EXCEPT ![cursor + 1] = r]
           /\ samples' = Append(samples, r)
           /\ printed' = printed \cup WorkerPrints(variant, contexts[cursor + 1], r)
    /\ task' = [task EXCEPT ![cursor + 1] = "done"]
    /\ calls' = [calls EXCEPT ![cursor + 1] = @ + 1]
    /\ cursor' = cursor + 1
    /\ UNCHANGED <<variant, contexts, parallel, pc, order, failed_ids, ret,
                   splitVars, loadVars,
                   parseVars, cycloneVars, level1Vars>>

SeqListDone ==
    /\ pc = "seq"
    /\ variant \in {"ft_himawari", "ft_msi"}
    /\ cursor = NCtx
    /\ pc' = "filter"
    /\ UNCHANGED <<variant, contexts, parallel, calls, task, results, cursor, order,
                   samples, failed_ids, printed, ret, splitVars, loadVars,
                   parseVars, cycloneVars, level1Vars>>

\* finetune himawari / msi: valid_samples = [s for s in samples if s is not
\* None]; the Tortilla of the valid samples is returned.
\* A filter that returns the kept samples last first.
FilterAndReturn_Reversed ==
    /\ pc = "filter"
    /\ LET valid == FilterSeq(samples, {r \in Range(samples) : r.kind = "sample"})
       IN  ret' = Tortilla([i \in DOMAIN valid |-> valid[Len(valid) + 1 - i].sample])
    /\ pc' = "done"
    /\ UNCHANGED <<variant, contexts, parallel, calls, task, results, cursor, order,
                   samples, failed_ids, printed, splitVars, loadVars,
                   parseVars, cycloneVars, level1Vars>>

FilterAndReturn ==
    /\ pc = "filter"
    /\ LET valid == FilterSeq(samples, {r \in Range(samples) : r.kind = "sample"})
       IN  ret' = Tortilla([i \in DOMAIN valid |-> valid[i].sample])
    /\ pc' = "done"
    /\ UNCHANGED <<variant, contexts, parallel, calls, task, results, cursor, order,
                   samples, failed_ids, printed, splitVars, loadVars,
                   parseVars, cycloneVars, level1Vars>>

\* A loop that keeps a sample only when its future is yielded in submission
\* order.
AsCompletedNext_Lossy(i) ==
    /\ pc = "pool"
    /\ variant = "ft_cyclone"
    /\ task[i] = "done"
    /\ i \notin Range(order)
    /\ order' = Append(order, i)
    /\ IF results[i].kind = "sample"
       THEN /\ samples' = IF \A j \in Range(order) : j < i
                          THEN Append(samples, results[i].sample) ELSE samples
            /\ UNCHANGED <<pc, printed>>
       ELSE /\ printed' = printed \cup {contexts[i].id}
            /\ pc' = "draining"
            /\ UNCHANGED samples
    /\ UNCHANGED <<variant, contexts, parallel, calls, task, results, cursor,
                   failed_ids, ret, splitVars, loadVars,
                   parseVars, cycloneVars, level1Vars>>

\* finetune cyclone, parallel: as_completed yields a finished future that it
\* has not yielded yet; future.result() either gives the sample, which is
\* appended, or re-raises the worker's exception, which is printed and
\* re-raised out of the loop.
AsCompletedNext(i) ==
    /\ pc = "pool"
    /\ variant = "ft_cyclone"
    /\ task[i] = "done"
    /\ i \notin Range(order)
    /\ order' = Append(order, i)
    /\ IF results[i].kind = "sample"
       THEN /\ samples' = Append(samples, results[i].sample)
            /\ UNCHANGED <<pc, printed>>
       ELSE /\ printed' = printed \cup {contexts[i].id}
            /\ pc' = "draining"
            /\ UNCHANGED samples
    /\ UNCHANGED <<variant, contexts, parallel, calls, task, results, cursor,
                   failed_ids, ret, splitVars, loadVars,
                   parseVars, cycloneVars, level1Vars>>

\* An exit that lets the exception leave without waiting for the pool.
DrainAndRaise_NoWait ==
    /\ pc = "draining"
    /\ ret' = Propagated
    /\ pc' = "done"
    /\ UNCHANGED <<variant, contexts, parallel, calls, task, results, cursor, order,
                   samples, failed_ids, printed, splitVars, loadVars,
                   parseVars, cycloneVars, level1Vars>>

\* finetune cyclone, parallel: the exception leaves the "with" block, whose
\* exit waits for every submitted task (shutdown(wait=True)); then it leaves
\* build().
DrainAndRaise ==
    /\ pc = "draining"
    /\ AllDone
    /\ ret' = Propagated
    /\ pc' = "done"
    /\ UNCHANGED <<variant, contexts, parallel, calls, task, results, cursor, order,
                   samples, failed_ids, printed, splitVars, loadVars,
                   parseVars, cycloneVars, level1Vars>>

\* finetune cyclone, parallel: every future was yielded without an exception.
ReturnCycloneParallel ==
    /\ pc = "pool"
    /\ variant = "ft_cyclone"
    /\ Len(order) = NCtx
    /\ ret' = Tortilla(samples)
    /\ pc' = "done"
    /\ UNCHANGED <<variant, contexts, parallel, calls, task, results, cursor, order,
                   samples, failed_ids, printed, splitVars, loadVars,
                   parseVars, cycloneVars, level1Vars>>

\* finetune cyclone, sequential: one element of
\* [build_sample(ctx) for ctx in contexts]; an exception leaves build() at
\* once.
SeqStepCyclone ==
    /\ pc = "seq"
    /\ variant = "ft_cyclone"
    /\ cursor < NCtx
    /\ \E r \in {BuildOne(variant, contexts[cursor + 1], tz)} :
           /\ results' = [results EXCEPT ![cursor + 1] = r]
           /\ IF r.kind = "sample"
              THEN /\ samples' = Append(samples, r.sample)
                   /\ UNCHANGED <<pc, ret>>
              ELSE /\ ret' = Propagated
                   /\ pc' = "done"
                   /\ UNCHANGED samples
    /\ task' = [task EXCEPT ![cursor + 1] = "done"]
    /\ calls' = [calls EXCEPT ![cursor + 1] = @ + 1]
    /\ cursor' = cursor + 1
    /\ UNCHANGED <<variant, contexts, parallel, order, failed_ids, printed,
                   splitVars, loadVars,
                   parseVars, cycloneVars, level1Vars>>

ReturnCycloneSequential ==
    /\ pc = "seq"
    /\ variant = "ft_cyclone"
    /\ cursor = NCtx
    /\ ret' = Tortilla(samples)
    /\ pc' = "done"
    /\ UNCHANGED <<variant, contexts, parallel, calls, task, results, cursor, order,
                   samples, failed_ids, printed, splitVars, loadVars,
                   parseVars, cycloneVars, level1Vars>>

Next ==
    \/ StartParallel
    \/ StartSequential
    \/ \E i \in 1..NCtx : WorkerRun(i)
    \/ MapReturns
    \/ Aggregate
    \/ SeqStepPreMsi
    \/ ReturnPreMsi
    \/ SeqStepFinetune
    \/ SeqListDone
    \/ FilterAndReturn
    \/ \E i \in 1..NCtx : AsCompletedNext(i)
    \/ DrainAndRaise
    \/ ReturnCycloneParallel
    \/ SeqStepCyclone
    \/ ReturnCycloneSequential

Spec == Init /\ [][Next]_vars

\* build() under the premise that it keeps running: every call of a builder
\* returns, the pool runs every task it was given, and each loop goes on to
\* its next iteration.
\* (Whether build() returns does not depend on the time zone: the fair runs
\* are those of a process in UTC.)
InitFair == Init /\ tz = 0

SpecFair == InitFair /\ [][Next]_vars /\ WF_vars(Next)


(***************************************************************************)
(* SpecSplit: determine_split applied to one timestamp.                     *)
(***************************************************************************)
NumDays == 60

\* Instants from 2024-01-01T00:00:00Z on: midnight, noon and the last second
\* of NumDays consecutive UTC days.
Timestamps ==
    {[s |-> (19723 + d) * SecondsPerDay + sod, us |-> 0] :
        d \in 0..(NumDays - 1), sod \in {0, 12 * 3600, SecondsPerDay - 1}}

InitSplit ==
    /\ timestamp_us \in Timestamps
    /\ tz \in Offsets
    /\ split = "pending"
    /\ LoadIdle
    /\ BuildIdle
    /\ ParseIdle
    /\ Level1Idle
    /\ CycloneIdle

DetermineSplit ==
    /\ split = "pending"
    /\ split' = determine_split(timestamp_us, tz)
    /\ UNCHANGED <<timestamp_us, tz, loadVars, buildVars, parseVars, cycloneVars, level1Vars>>

NextSplit == DetermineSplit

SpecSplit == InitSplit /\ [][NextSplit]_vars

(***************************************************************************)
(* SpecParse: the finetune msi build_sample up to its split: the timestamp  *)
(* is parsed from the directory name and handed to determine_split.         *)
(***************************************************************************)
\* str(n) for one decimal digit, and n written with two and four digits.
Digit(n) == Chars[n + 3]
D2(n) == <<Digit(n \div 10), Digit(n % 10)>>
D4(n) == D2(n \div 100) \o D2(n % 100)

\* The directory name MSG<sat>_<YYYYMMDDHHMMSS>_CS.
MsgDirname(sat, y, mo, d, h, mi, sec) ==
    S_MSG \o sat \o <<"_">> \o D4(y) \o D2(mo) \o D2(d) \o D2(h) \o D2(mi)
          \o D2(sec) \o <<"_", "C", "S">>

\* The months and the times of day the names are written with: a 30-day
\* month, February of a leap year, and midnight, 00:12:40 and 23:59:59.
ParseMonths == {<<2006, 6>>, <<2024, 2>>}
ParseTimes  == {<<0, 0, 0>>, <<0, 12, 40>>, <<23, 59, 59>>}

\* Names of the form MSG<digits>_<14 digits>_..., the day running over 1..31
\* (so that some dates do not exist), and names that lack the form.
ParseDirnames ==
    {MsgDirname(sat, ym[1], ym[2], d, t[1], t[2], t[3]) :
        sat \in {<<"1">>, <<"1", "0">>}, ym \in ParseMonths, d \in 1..31,
        t \in ParseTimes}
    \cup {<<"M", "S", "G", "x">>,
          S_MSG \o <<"_">> \o D4(2006) \o D4(613) \o D4(12) \o D2(40) \o <<"_">>,
          S_MSG \o <<"1", "_">> \o D4(2006) \o D4(613) \o D4(12) \o <<"4", "_">>}

InitParse ==
    /\ sample_id \in ParseDirnames
    /\ parsed_ts = <<>>
    /\ split_label = "pending"
    /\ timestamp_us = [s |-> 0, us |-> 0]
    /\ tz \in Offsets
    /\ split = "pending"
    /\ LoadIdle
    /\ BuildIdle
    /\ Level1Idle
    /\ CycloneIdle

\* timestamp_us = parse_timestamp_from_dirname(sample_id)
ParseTimestamp ==
    /\ parsed_ts = <<>>
    /\ parsed_ts' = <<parse_timestamp_from_dirname(sample_id, tz)>>
    /\ UNCHANGED <<sample_id, split_label, splitVars, loadVars, buildVars,
                   level1Vars, cycloneVars>>

\* split = determine_split(timestamp_us)
SplitParsed ==
    /\ parsed_ts # <<>>
    /\ parsed_ts[1].ok
    /\ split_label = "pending"
    /\ split_label' = determine_split(parsed_ts[1].t, tz)
    /\ UNCHANGED <<sample_id, parsed_ts, splitVars, loadVars, buildVars,
                   level1Vars, cycloneVars>>

\* The ValueError of the parser is caught: build_sample returns None.
ParseFailed ==
    /\ parsed_ts # <<>>
    /\ ~parsed_ts[1].ok
    /\ split_label = "pending"
    /\ split_label' = "none"
    /\ UNCHANGED <<sample_id, parsed_ts, splitVars, loadVars, buildVars,
                   level1Vars, cycloneVars>>

NextParse ==
    \/ ParseTimestamp
    \/ SplitParsed
    \/ ParseFailed

SpecParse == InitParse /\ [][NextParse]_vars

(***************************************************************************)
(* SpecLevel1: one call of level1.build(ctx) (finetune goes and finetune    *)
(* cyclone level1.py).                                                      *)
(***************************************************************************)
Level1Variants == {"ft_goes", "ft_cyclone"}

\* The two data files of a sample directory.
Level1Files == {"geo_patch.tif", "cloudsat_aligned.tif"}

\* The contexts: the parent's identifier, ctx["path"] given as str or as
\* bytes, and which of the two files exist in the directory.
Level1Contexts ==
    [id : Range(IdOrder("ft_cyclone")) \cup MsgNames,
     path_is_bytes : BOOLEAN,
     files : SUBSET Level1Files]

L1Sample(ident)  == [kind |-> "sample", id |-> ident]
L1Raised(reason) == [kind |-> "raise", id |-> reason]

\* A builder that names its sample after the parent context.
build_geo_patch_ParentId(v, ctx) ==
    IF "geo_patch.tif" \notin ctx.files
    THEN L1Raised("FileNotFoundError: geo_patch.tif")
    ELSE [kind |-> "sample", id |-> ctx.id]

\* build_geo_patch / build_sample_geo_patch: Sample(id="geo_patch", ...).
\* The cyclone builder raises FileNotFoundError itself when the file does not
\* exist; in the goes builder the Header extension cannot read it.
build_geo_patch(v, ctx) ==
    IF "geo_patch.tif" \notin ctx.files
    THEN L1Raised("FileNotFoundError: geo_patch.tif")
    ELSE L1Sample("geo_patch")

\* build_cloudsat_aligned / build_sample_cloudsat:
\* Sample(id="cloudsat_aligned", ...).
build_cloudsat_aligned(v, ctx) ==
    IF "cloudsat_aligned.tif" \notin ctx.files
    THEN L1Raised("FileNotFoundError: cloudsat_aligned.tif")
    ELSE L1Sample("cloudsat_aligned")

\* SAMPLES = [build_geo_patch, build_cloudsat_aligned]: the k-th builder.
SAMPLES(k, v, ctx) ==
    IF k = 1 THEN build_geo_patch(v, ctx) ELSE build_cloudsat_aligned(v, ctx)

NumLevel1Builders == 2

InitLevel1 ==
    /\ l1variant \in Level1Variants
    /\ l1ctx \in Level1Contexts
    /\ (l1variant = "ft_goes" => ~l1ctx.path_is_bytes)
    /\ l1samples = <<>>
    /\ l1ret = [kind |-> "none", samples |-> <<>>]
    /\ SplitIdle
    /\ LoadIdle
    /\ BuildIdle
    /\ ParseIdle
    /\ CycloneIdle

\* One element of [fn(ctx) for fn in SAMPLES]: the sample is appended, or the
\* builder's exception leaves build(ctx).
Level1Step ==
    /\ l1ret.kind = "none"
    /\ Len(l1samples) < NumLevel1Builders
    /\ LET r == SAMPLES(Len(l1samples) + 1, l1variant, l1ctx)
       IN  IF r.kind = "sample"
           THEN /\ l1samples' = Append(l1samples, r)
                /\ UNCHANGED l1ret
           ELSE /\ l1ret' = [kind |-> "raised", samples |-> <<>>]
                /\ UNCHANGED l1samples
    /\ UNCHANGED <<l1variant, l1ctx, splitVars, loadVars, buildVars, parseVars, cycloneVars>>

\* return Tortilla(samples=[...], pad_to=PAD_TO, strict_schema=STRICT_SCHEMA)
Level1Return ==
    /\ l1ret.kind = "none"
    /\ Len(l1samples) = NumLevel1Builders
    /\ l1ret' = [kind |-> "tortilla", samples |-> l1samples]
    /\ UNCHANGED <<l1variant, l1ctx, l1samples, splitVars, loadVars, buildVars,
                   parseVars, cycloneVars>>

NextLevel1 ==
    \/ Level1Step
    \/ Level1Return

SpecLevel1 == InitLevel1 /\ [][NextLevel1]_vars

(***************************************************************************)
(* SpecCyclone: one cyclone sample folder, from the body of load_contexts'  *)
(* loop (detect_satellite, the context dict) to build_sample.               *)
(***************************************************************************)
CycloneFolderNames ==
    Range(IdOrder("ft_cyclone"))
    \cup {<<"H", "0", "8", "_", "a">>, <<"2", "0", "1", "9", "_", "a">>,
          <<"G", "1", "6">>}

\* What a folder can hold: the environments of Spec, and side-channel records
\* that differ in LAT, LON, abs_delta_t_s and delta_t.
CycloneEnvs ==
    EnvsOf("ft_cyclone")
    \cup {[Nominal EXCEPT !.json = "no_lat"], [Nominal EXCEPT !.json = "no_lon"],
          [Nominal EXCEPT !.LON = Fin(200), !.LAT = Fin(0 - 5)]}
    \cup {[Nominal EXCEPT !.abs_delta_t_s = a, !.delta_t = d] :
            a \in {Absent, Fin(0 - 30), NaN, NegInf, JsonNull},
            d \in {Absent, Fin(0 - 7), Fin(7)}}

InitCyclone ==
    /\ cyc_folder \in [name : CycloneFolderNames, env : CycloneEnvs]
    /\ cyc_ctx = <<>>
    /\ cyc_out = NoOutcome
    /\ timestamp_us = [s |-> 0, us |-> 0]
    /\ tz \in Offsets
    /\ split = "pending"
    /\ LoadIdle
    /\ BuildIdle
    /\ ParseIdle
    /\ Level1Idle

\* detect_satellite raises ValueError: load_contexts gives no context.
DetectSatelliteRaises ==
    /\ cyc_ctx = <<>>
    /\ cyc_out.kind = "pending"
    /\ detect_satellite(cyc_folder.name) = "raise"
    /\ cyc_out' = Raised("ValueError: Unknown satellite pattern")
    /\ UNCHANGED <<cyc_folder, cyc_ctx, splitVars, loadVars, buildVars,
                   parseVars, level1Vars>>

\* The context dict of a folder whose name matches a pattern.
LoadCycloneContext ==
    /\ cyc_ctx = <<>>
    /\ cyc_out.kind = "pending"
    /\ detect_satellite(cyc_folder.name) # "raise"
    /\ cyc_ctx' = <<Context("ft_cyclone", cyc_folder.name, cyc_folder.env)>>
    /\ UNCHANGED <<cyc_folder, cyc_out, splitVars, loadVars, buildVars,
                   parseVars, level1Vars>>

\* build_sample(ctx)
BuildSampleCyclone ==
    /\ cyc_ctx # <<>>
    /\ cyc_out.kind = "pending"
    /\ cyc_out' = build_sample_cyclone(cyc_ctx[1], tz)
    /\ UNCHANGED <<cyc_folder, cyc_ctx, splitVars, loadVars, buildVars,
                   parseVars, level1Vars>>

NextCyclone ==
    \/ DetectSatelliteRaises
    \/ LoadCycloneContext
    \/ BuildSampleCyclone

SpecCyclone == InitCyclone /\ [][NextCyclone]_vars

(***************************************************************************)
(* SpecLoad: one call of load_contexts over one directory tree.             *)
(***************************************************************************)
InitLoad ==
    /\ lvariant \in LoadVariants
    /\ listing \in SeqsDistinct(Universe(lvariant), MaxEntries)
    /\ limit \in Limits
    /\ loaded = [kind |-> "pending", ctxs |-> <<>>]
    /\ SplitIdle
    /\ BuildIdle
    /\ ParseIdle
    /\ Level1Idle
    /\ CycloneIdle

LoadDone(v, value) ==
    /\ lvariant = v
    /\ loaded.kind = "pending"
    /\ loaded' = value
    /\ UNCHANGED <<lvariant, listing, limit, splitVars, buildVars, parseVars, cycloneVars, level1Vars>>

LoadFtGoes      == LoadDone("ft_goes", load_contexts_ft_goes(listing, limit))
LoadFtHimawari  == LoadDone("ft_himawari", load_contexts_ft_himawari(listing, limit))
LoadFtMsi       == LoadDone("ft_msi", load_contexts_ft_msi(listing, limit))
LoadFtCyclone   == LoadDone("ft_cyclone", load_contexts_ft_cyclone(listing, limit))
LoadPreHimawari == LoadDone("pre_himawari", load_contexts_pre_himawari(listing, limit))
LoadPreMsi      == LoadDone("pre_msi", load_contexts_pre_msi(listing, limit))

NextLoad ==
    \/ LoadFtGoes
    \/ LoadFtHimawari
    \/ LoadFtMsi
    \/ LoadFtCyclone
    \/ LoadPreHimawari
    \/ LoadPreMsi

SpecLoad == InitLoad /\ [][NextLoad]_vars

(***************************************************************************)
(* Properties of determine_split (SpecSplit).                               *)
(***************************************************************************)
LocalDay == FromTimestamp(timestamp_us, tz).day

\* C1: determine_split maps a timestamp whose local day-of-month is d to
\* 'train' iff 1 <= d <= 23, 'validation' iff 24 <= d <= 27 and 'test' iff
\* 28 <= d <= 31; the three day sets of SPLIT_DAYS are pairwise disjoint and
\* together cover 1..31.
C1_SplitPartition ==
    /\ SPLIT_DAYS.train \cap SPLIT_DAYS.validation = {}
    /\ SPLIT_DAYS.train \cap SPLIT_DAYS.test = {}
    /\ SPLIT_DAYS.validation \cap SPLIT_DAYS.test = {}
    /\ SPLIT_DAYS.train \cup SPLIT_DAYS.validation \cup SPLIT_DAYS.test = 1..31
    /\ split # "pending" =>
        /\ LocalDay \in 1..31
        /\ split \in {"train", "validation", "test"}
        /\ (split = "train") <=> (LocalDay \in 1..23)
        /\ (split = "validation") <=> (LocalDay \in 24..27)
        /\ (split = "test") <=> (LocalDay \in 28..31)

\* A timestamp on the 31st has been labelled 'test'.
C1_Witness == split = "test" /\ LocalDay = 31

(***************************************************************************)
(* Properties of load_contexts (SpecLoad).                                  *)
(***************************************************************************)
LoadContexts(v, fs, lim) ==
    CASE v = "ft_goes"      -> load_contexts_ft_goes(fs, lim)
      [] v = "ft_himawari"  -> load_contexts_ft_himawari(fs, lim)
      [] v = "ft_msi"       -> load_contexts_ft_msi(fs, lim)
      [] v = "ft_cyclone"   -> load_contexts_ft_cyclone(fs, lim)
      [] v = "pre_himawari" -> load_contexts_pre_himawari(fs, lim)
      [] OTHER              -> load_contexts_pre_msi(fs, lim)

\* The sorted enumeration: what the call returns without a limit.
Enumeration == LoadContexts(lvariant, listing, LimitNone).ctxs

IsFraction(lim) == lim.kind = "float" /\ 0 < lim.num /\ lim.num < lim.den

Floor(a, b) == a \div b
Ceil(a, b)  == 0 - ((0 - a) \div b)

IsPrefix(p, q) == Len(p) <= Len(q) /\ p = SubSeq(q, 1, Len(p))

\* C8 as stated: for a fractional limit f in (0,1) and N enumerated entries,
\* load_contexts returns exactly the first ceil(f * N) entries of the sorted
\* enumeration.
C8_FractionIsCeil ==
    (loaded.kind = "ok" /\ IsFraction(limit)) =>
        loaded.ctxs =
            SubSeq(Enumeration, 1, Ceil(limit.num * Len(Enumeration), limit.den))

\* C8 as amended: for a fractional limit f in (0,1) and N enumerated entries,
\* load_contexts returns exactly the first floor(f * N) entries of the sorted
\* enumeration; when floor(f * N) = 0 it returns the first entry instead,
\* except in the finetune msi variant, which then returns no entry.
C8_FractionIsFloor ==
    (loaded.kind = "ok" /\ IsFraction(limit)) =>
        LET N == Len(Enumeration)
            k == Floor(limit.num * N, limit.den)
            n == IF k > 0 THEN k
                 ELSE IF lvariant = "ft_msi" THEN 0
                 ELSE Min(1, N)
        IN  loaded.ctxs = SubSeq(Enumeration, 1, n)

\* A fractional limit was applied where floor and ceil differ and neither is 0.
C8_Witness ==
    /\ loaded.kind = "ok"
    /\ IsFraction(limit)
    /\ Len(Enumeration) = 3
    /\ limit.num * 3 = 9
    /\ Len(loaded.ctxs) = 2

\* C9: for every fractional limit f in (0,1) and every non-empty enumeration,
\* load_contexts returns at least one context, in every variant.
C9_FractionKeepsOne ==
    (loaded.kind = "ok" /\ IsFraction(limit) /\ Len(Enumeration) >= 1) =>
        Len(loaded.ctxs) >= 1

\* C10: for an integer limit n >= 0, load_contexts returns exactly
\* the first n entries of the sorted enumeration (all N when n >= N), and for
\* every limit the result is a prefix of the unlimited result.
C10_IntIsFirstN ==
    loaded.kind = "ok" =>
        /\ IsPrefix(loaded.ctxs, Enumeration)
        /\ (limit.kind = "int" /\ limit.num >= 0) =>
              loaded.ctxs = SubSeq(Enumeration, 1, Min(limit.num, Len(Enumeration)))

\* The ids a call returned, in order.
LoadedIds == [i \in DOMAIN loaded.ctxs |-> loaded.ctxs[i].id]

\* The directories directly under the scanned root.
ListedDirs == {e \in Range(listing) : e.isdir /\ Len(e.path) = 1}

\* The naming convention a finetune variant's enumeration tests; the
\* finetune himawari enumeration tests none.
Recognized(v, name) ==
    CASE v = "ft_goes"    -> StartsWith(name, S_G16)
      [] v = "ft_msi"     -> StartsWith(name, S_MSG)
      [] v = "ft_cyclone" -> StartsWith(name, S_G16) \/ MatchesHimawariPattern(name)
      [] OTHER            -> TRUE

UnrecognizedDirs == {e \in ListedDirs : ~Recognized(lvariant, Name(e.path))}

RECURSIVE ReferenceListing(_)
ReferenceListing(tree) ==
    IF tree = {} THEN <<>>
    ELSE LET e == CHOOSE e \in tree : TRUE
         IN  <<e>> \o ReferenceListing(tree \ {e})

\* C18: over an unchanged tree and with the same limit, load_contexts gives the
\* same result (the same identifiers in the same order, or the same failure)
\* whatever the order in which the file system lists the entries: the result
\* over every listing of a tree is the result over the tree's reference
\* listing.
C18_ListingOrderIndependent ==
    loaded.kind # "pending" =>
        loaded = LoadContexts(lvariant, ReferenceListing(Range(listing)), limit)

\* Two contexts were returned, cut by a limit, from a listing of three entries
\* that the file system did not give in sorted order.
C18_Witness ==
    /\ loaded.kind = "ok"
    /\ limit = LimitInt(2)
    /\ Len(listing) = 3
    /\ Len(loaded.ctxs) = 2
    /\ listing # SortedEntries(listing)
    /\ listing # ReferenceListing(Range(listing))

\* The name (last part of the path) that gives the i-th returned context its
\* identifier.
LoadedName(i) == Name(loaded.ctxs[i].path)

\* C19 as stated: the returned contexts are in ascending lexicographic order
\* of the directory/file name that gives each its identifier, in every
\* variant.
C19_AscendingByName ==
    loaded.kind = "ok" =>
        \A i, j \in DOMAIN loaded.ctxs :
            i < j => StrLess(LoadedName(i), LoadedName(j))

\* C19 as amended: the returned contexts are in ascending order of their
\* whole path, compared part by part; in the four finetune variants, which
\* list one flat directory, this is the ascending order of the directory
\* names, and in the two pretraining variants, which collect recursively, the
\* order of the file names follows only within one directory.
C19_AscendingByPath ==
    loaded.kind = "ok" =>
        \A i, j \in DOMAIN loaded.ctxs :
            i < j =>
                /\ PathLess(loaded.ctxs[i].path, loaded.ctxs[j].path)
                /\ (lvariant \notin {"pre_himawari", "pre_msi"}
                      \/ SubSeq(loaded.ctxs[i].path, 1, Len(loaded.ctxs[i].path) - 1)
                          = SubSeq(loaded.ctxs[j].path, 1, Len(loaded.ctxs[j].path) - 1))
                   => StrLess(LoadedName(i), LoadedName(j))

\* The pretraining himawari enumeration returned the files of its two roots
\* with the identifiers c, b, a in that order.
C19_Witness ==
    /\ lvariant = "pre_himawari"
    /\ loaded.kind = "ok"
    /\ LoadedIds = << <<"c">>, <<"b">>, <<"a">> >>

(***************************************************************************)
(* Properties of build (Spec).                                              *)
(***************************************************************************)
\* The variants whose builder validates the centroid geometry.
Validating == {"pre_msi", "ft_himawari", "ft_msi"}

\* The outcome the builder gives for the i-th context.
OutcomeOf(i) == BuildOne(variant, contexts[i], tz)

\* The i-th context was dropped by the geometry validation.
GeometryDrop(i) == OutcomeOf(i).reason \in {"Invalid geometry", "Infinite bounds"}

HasInf(w) == IsInf(w[1]) \/ IsInf(w[2])
HasNaN(w) == IsNaN(w[1]) \/ IsNaN(w[2])

\* The centroid the i-th context's inputs lead to.
InputCentroid(i) ==
    LET e == contexts[i].env
    IN  CASE variant = "pre_msi" ->
                <<FHalf(FAdd(e.corner_lb[1], e.corner_rt[1])),
                  FHalf(FAdd(e.corner_lb[2], e.corner_rt[2]))>>
          [] variant = "ft_cyclone" -> <<NormalizeLon(e.LON), e.LAT>>
          [] OTHER -> e.auto_centroid

EmittedIds == {ret.samples[i].id : i \in DOMAIN ret.samples}

\* C2: in every variant, every record of the collection build() returns has a
\* centroid without an infinite coordinate: a context whose centroid has an
\* infinite coordinate produces no record, and build() does not raise
\* because of it.
C2_NoInfiniteCentroid ==
    /\ ret.kind = "tortilla" =>
          /\ \A k \in DOMAIN ret.samples : ~HasInf(ret.samples[k].centroid)
          /\ \A i \in 1..NCtx :
                HasInf(InputCentroid(i)) => contexts[i].id \notin EmittedIds
    /\ ret.kind = "raised" =>
          \E i \in 1..NCtx : OutcomeOf(i).kind = "raise" /\ ~HasInf(InputCentroid(i))

\* C3: in the variants that validate geometry, a sample whose centroid has a
\* NaN longitude or latitude is never emitted into the output collection.
C3_NoNaNCentroid ==
    (variant \in Validating /\ ret.kind = "tortilla") =>
        /\ \A k \in DOMAIN ret.samples : ~HasNaN(ret.samples[k].centroid)
        /\ \A i \in 1..NCtx :
              HasNaN(InputCentroid(i)) => contexts[i].id \notin EmittedIds

NoSideChannel(i) == contexts[i].env.json = "absent"

\* C5 as stated: in every variant that reads the side-channel record, a
\* missing *_global.json makes the whole build() abort with an exception.
C5_MissingJsonAborts ==
    (variant \in {"ft_himawari", "ft_msi", "ft_cyclone"} /\ pc = "done"
        /\ \E i \in 1..NCtx : NoSideChannel(i)) =>
        ret.kind = "raised"

\* C5 as amended: a missing *_global.json aborts build() with an exception in
\* the cyclone variant; in the finetune himawari and msi variants the
\* exception is caught in build_sample, which prints the identifier and
\* returns None, and build() returns the records of the other contexts.
C5_MissingJsonAbortsOrSkips ==
    (variant \in {"ft_himawari", "ft_msi", "ft_cyclone"} /\ pc = "done"
        /\ \E i \in 1..NCtx : NoSideChannel(i)) =>
        IF variant = "ft_cyclone" THEN ret.kind = "raised"
        ELSE /\ ret.kind = "tortilla"
             /\ \A i \in 1..NCtx :
                   /\ NoSideChannel(i) =>
                         /\ results[i].kind = "none"
                         /\ contexts[i].id \in printed
                         /\ contexts[i].id \notin EmittedIds
                   /\ OutcomeOf(i).kind = "sample" => contexts[i].id \in EmittedIds

\* A finetune himawari build has returned the record of one context although
\* another context's *_global.json is missing.
C5_Witness ==
    /\ variant = "ft_himawari"
    /\ pc = "done"
    /\ ret.kind = "tortilla"
    /\ Len(ret.samples) = 1
    /\ \E i \in 1..NCtx : NoSideChannel(i) /\ results[i].kind = "none"

\* C6: in the cyclone build, if build_sample raises for any context then
\* build() propagates the exception and returns no Tortilla, in the parallel
\* and in the sequential branch; aggregation stops at the first failure
\* observed; submitted tasks are not cancelled and have all run to
\* completion when the exception leaves build().
C6_AbortOnError ==
    /\ [](variant = "ft_cyclone" =>
            /\ pc = "done" =>
                  (ret.kind = "raised" <=>
                      \E i \in 1..NCtx : OutcomeOf(i).kind = "raise")
            /\ (ret.kind = "raised" /\ UsesPool) =>
                  \A i \in 1..NCtx : task[i] = "done" /\ results[i] = OutcomeOf(i))
    /\ [][(variant = "ft_cyclone" /\ (pc = "draining" \/ ret.kind = "raised"))
             => samples' = samples]_vars

\* A parallel cyclone build has raised; a task that built its sample ran to
\* completion but its sample was never aggregated.
C6_Witness ==
    /\ variant = "ft_cyclone"
    /\ UsesPool
    /\ ret.kind = "raised"
    /\ \E i \in 1..NCtx :
          /\ task[i] = "done"
          /\ results[i].kind = "sample"
          /\ i \notin Range(order)

\* The indices 1..n as a sequence.
Indices(n) == [i \in 1..n |-> i]

\* C7: in the pretraining msi build, whichever contexts fail, build() returns
\* normally; the returned samples are exactly the records of the non-failing
\* contexts, failed_ids holds exactly the identifiers of the failing ones, and
\* every context identifier is in exactly one of the two.
C7_SkipAndReport ==
    variant = "pre_msi" =>
        /\ ret.kind # "raised"
        /\ pc = "done" =>
            LET failing == {i \in 1..NCtx : OutcomeOf(i).kind = "error"}
                good == FilterSeq(Indices(NCtx), (1..NCtx) \ failing)
                bad  == FilterSeq(Indices(NCtx), failing)
            IN  /\ ret = Tortilla([k \in DOMAIN good |-> OutcomeOf(good[k]).sample])
                /\ failed_ids = [k \in DOMAIN bad |-> contexts[bad[k]].id]
                /\ \A i \in 1..NCtx :
                      (contexts[i].id \in Range(failed_ids))
                          <=> (contexts[i].id \notin EmittedIds)

\* A pretraining msi build has returned the record built before a later
\* context failed.
C7_Witness ==
    /\ variant = "pre_msi"
    /\ pc = "done"
    /\ NCtx = 2
    /\ Len(ret.samples) = 1
    /\ ret.samples[1].id = contexts[1].id
    /\ failed_ids = <<contexts[2].id>>

\* A finite longitude within [-180, 180].
LonInRange(x) == IsFinite(x) /\ x.v >= 0 - 180 /\ x.v <= 180

\* The cyclone builder has produced the record of the i-th context.
CycloneBuilt(i) == variant = "ft_cyclone" /\ results[i].kind = "sample"

C13_CentroidLonInRange ==
    ret.kind = "tortilla" =>
        \A k \in DOMAIN ret.samples : LonInRange(ret.samples[k].centroid[1])

\* C14: in every variant, the identifier of a record the builder produces
\* for a context equals that context's id, and every record of the returned
\* collection carries the id of the context it was built from.
C14_RecordIdIsContextId ==
    /\ \A i \in 1..NCtx :
          results[i].kind = "sample" => results[i].sample.id = contexts[i].id
    /\ ret.kind = "tortilla" =>
          \A k \in DOMAIN ret.samples :
              \E i \in 1..NCtx :
                  /\ results[i].kind = "sample"
                  /\ ret.samples[k] = results[i].sample
                  /\ ret.samples[k].id = contexts[i].id

\* A finetune msi build, whose builder parses the id, has returned two
\* records that carry the ids of the two contexts.
C14_Witness ==
    /\ variant = "ft_msi"
    /\ ret.kind = "tortilla"
    /\ Len(ret.samples) = 2
    /\ \A k \in 1..2 : ret.samples[k].id = contexts[k].id

\* The records of the returned collection built from the i-th context.
RecordsOf(i) == {k \in DOMAIN ret.samples : ret.samples[k].id = contexts[i].id}

\* C15 as stated: within one build() call each context is passed to the
\* builder exactly once and never again after a failure, and each context
\* contributes at most one record, so the output never has more records than
\* there are contexts.
C15_BuiltExactlyOnce ==
    /\ \A i \in 1..NCtx : calls[i] <= 1
    /\ pc = "done" => \A i \in 1..NCtx : calls[i] = 1
    /\ ret.kind = "tortilla" =>
          /\ Len(ret.samples) <= NCtx
          /\ \A i \in 1..NCtx : Cardinality(RecordsOf(i)) <= 1

\* C15 as amended: each context is passed to the builder at most once and
\* never again after a failure; exactly once when build() returns a
\* collection and whenever the pool is used. When the sequential cyclone
\* build aborts, the contexts after the first failing one are never passed to
\* the builder. Each context contributes at most one record.
C15_BuiltAtMostOnce ==
    /\ \A i \in 1..NCtx : calls[i] <= 1
    /\ (pc = "done" /\ (ret.kind = "tortilla" \/ UsesPool)) =>
          \A i \in 1..NCtx : calls[i] = 1
    /\ (pc = "done" /\ ret.kind = "raised" /\ ~UsesPool) =>
          \E f \in 1..NCtx :
              /\ results[f].kind = "raise"
              /\ \A i \in 1..NCtx : calls[i] = (IF i <= f THEN 1 ELSE 0)
    /\ ret.kind = "tortilla" =>
          /\ Len(ret.samples) <= NCtx
          /\ \A i \in 1..NCtx : Cardinality(RecordsOf(i)) <= 1

\* A parallel pretraining msi build has returned one record of two contexts:
\* the first context failed and was passed to the builder once only.
C15_Witness ==
    /\ variant = "pre_msi"
    /\ parallel
    /\ ret.kind = "tortilla"
    /\ NCtx = 2
    /\ results[1].kind = "error"
    /\ calls = <<1, 1>>
    /\ Len(ret.samples) = 1

\* C16: for the same contexts, build() returns the same set of records with
\* parallel=True, under every interleaving of worker completions, as with
\* parallel=False: the records of the contexts whose builder gives a sample
\* (or, in the cyclone variant, an exception if any builder raises).
C16_ParallelEqualsSequential ==
    pc = "done" =>
        LET good == {i \in 1..NCtx : OutcomeOf(i).kind = "sample"}
        IN  IF variant = "ft_cyclone" /\ \E i \in 1..NCtx : OutcomeOf(i).kind = "raise"
            THEN ret.kind = "raised"
            ELSE /\ ret.kind = "tortilla"
                 /\ Range(ret.samples) = {OutcomeOf(i).sample : i \in good}
                 /\ Len(ret.samples) = Cardinality(good)

\* A parallel cyclone build has returned both records although the second
\* worker finished first.
C16_Witness ==
    /\ variant = "ft_cyclone"
    /\ UsesPool
    /\ order = <<2, 1>>
    /\ ret.kind = "tortilla"
    /\ Len(ret.samples) = 2

HasTimestampSource(i) ==
    CASE variant \in {"pre_msi", "ft_himawari"} -> contexts[i].env.tag.present
      [] variant = "ft_msi" -> parse_timestamp_from_dirname(contexts[i].id, tz).ok
      [] OTHER -> contexts[i].env.start.present

\* C20: when a context whose files are all readable has no timestamp source,
\* build() fails with an exception: it neither returns a record without a
\* timestamp nor skips the sample and returns the others.
C20_NoTimestampIsFatal ==
    (pc = "done"
        /\ \E i \in 1..NCtx :
               contexts[i].env.files = "ok" /\ ~HasTimestampSource(i)) =>
        ret.kind = "raised"

\* The i-th context's raster carries the acquisition_time tag
\* "2024-01-15T00:00:00" and its builder reads that tag.
TaggedJan15(i) ==
    /\ variant \in {"pre_msi", "ft_himawari"}
    /\ contexts[i].env.tag = TimeAt(DateTime(2024, 1, 15, 0, 0, 0))

\* 2024-01-15T00:00:00Z in microseconds since the epoch: 1705276800000000.
Jan15Utc == [s |-> 1705276800, us |-> 0]

\* C22: a record emitted for a raster with an acquisition-time tag has
\* time_start = time_end, both the tag's instant in microseconds since the
\* Unix epoch: for the tag "2024-01-15T00:00:00" time_start is
\* 1705276800000000 and the split (where the variant assigns one) is 'train'.
C22_TagInstantInMicroseconds ==
    \A i \in 1..NCtx :
        (results[i].kind = "sample" /\ TaggedJan15(i)) =>
            /\ results[i].sample.time_end = results[i].sample.time_start
            /\ results[i].sample.time_start = Jan15Utc
            /\ variant = "ft_himawari" => results[i].sample.split = "train"

\* C23: build() terminates for every finite list of contexts, and in the
\* skip-and-report variants it ends by returning a collection, after the
\* builder has run on every context: no failure of a sample cancels it.
C23_BuildRunsToCompletion ==
    /\ <>(pc = "done")
    /\ [](variant \in Validating => ret.kind # "raised")
    /\ []((variant \in Validating /\ pc = "done") =>
            /\ ret.kind = "tortilla"
            /\ \A i \in 1..NCtx : calls[i] = 1 /\ results[i].kind # "pending")

\* The finetune msi build has returned a collection of one record although
\* the builder failed on the first of its two contexts.
C23_Witness ==
    /\ variant = "ft_msi"
    /\ pc = "done"
    /\ NCtx = 2
    /\ results[1].kind = "none"
    /\ results[2].kind = "sample"
    /\ ret.kind = "tortilla"
    /\ Len(ret.samples) = 1

\* C24: a level1 Tortilla holds exactly two samples, with the identifiers
\* 'geo_patch' and 'cloudsat_aligned' in that order, whatever the parent
\* context is; and a level1 build raises only when one of the two files is
\* missing.
C24_Level1FixedIds ==
    /\ l1ret.kind = "tortilla" =>
          /\ Len(l1ret.samples) = 2
          /\ l1ret.samples[1].id = "geo_patch"
          /\ l1ret.samples[2].id = "cloudsat_aligned"
    /\ \A k \in DOMAIN l1samples :
          l1samples[k].id = <<"geo_patch", "cloudsat_aligned">>[k]
    /\ l1ret.kind = "raised" => l1ctx.files # Level1Files

\* The cyclone level1 build has returned its Tortilla for a parent context
\* named G16_a whose path was given as bytes.
C24_Witness ==
    /\ l1variant = "ft_cyclone"
    /\ l1ctx.id = <<"G", "1", "6", "_", "a">>
    /\ l1ctx.path_is_bytes
    /\ l1ret.kind = "tortilla"

(***************************************************************************)
(* Properties of the parsed timestamp and its split (SpecParse).            *)
(***************************************************************************)
\* The 14 digits written in the name, <<>> when the name lacks the form.
WrittenDigits == MatchMsgDirname(sample_id)

\* The name has the form and its digits are a date and time that exist.
WrittenIsDate == WrittenDigits # <<>> /\ Strptime14(WrittenDigits).present

\* The day DD written in the name.
WrittenDay == Num(SubSeq(WrittenDigits, 7, 8))

Example13 == MsgDirname(<<"1">>, 2006, 6, 13, 0, 12, 40)
Example28 == MsgDirname(<<"1">>, 2006, 6, 28, 0, 0, 0)

\* C21: for a name MSG<digits>_<YYYYMMDDHHMMSS>_... whose digits are an
\* existing date and time, the parsed timestamp read back in local time is
\* the date and time written in the name, and the split is the split of the
\* written day DD: 1..23 'train', 24..27 'validation', 28..31 'test'. The name
\* MSG1_20060613001240_CS gives 2006-06-13T00:12:40 and 'train', the name
\* MSG1_20060628000000_CS gives day 28 and 'test'.
C21_SplitOfWrittenDay ==
    /\ (parsed_ts # <<>> /\ WrittenIsDate) =>
          /\ parsed_ts[1].ok
          /\ FromTimestamp(parsed_ts[1].t, tz) = Strptime14(WrittenDigits).dt
    /\ (split_label # "pending" /\ WrittenIsDate) =>
          /\ (split_label = "train") <=> (WrittenDay \in 1..23)
          /\ (split_label = "validation") <=> (WrittenDay \in 24..27)
          /\ (split_label = "test") <=> (WrittenDay \in 28..31)
          /\ sample_id = Example13 =>
                /\ split_label = "train"
                /\ FromTimestamp(parsed_ts[1].t, tz) = DateTime(2006, 6, 13, 0, 12, 40)
          /\ sample_id = Example28 => split_label = "test"

\* West of Greenwich, the name written for midnight of the 28th has been
\* given the split 'test'.
C21_Witness ==
    /\ sample_id = Example28
    /\ tz < 0
    /\ split_label = "test"

(***************************************************************************)
(* The cyclone record: storm centre, sensor and temporal offset.            *)
(***************************************************************************)
CycloneEmitted == cyc_out.kind = "sample"
CycloneBuildRan == cyc_ctx # <<>> /\ cyc_out.kind # "pending"
LacksLatOrLon(e) == e.json \in {"no_latlon", "no_lat", "no_lon"}

\* C25: every Sample the cyclone build_sample returns has the centroid
\* Point(lon', LAT), lon' being LON less 360 when LON > 180, and its
\* cyclone:center_lon / cyclone:center_lat are that centroid's two ordinates;
\* a folder whose side-channel record lacks LAT or LON never gives a Sample:
\* build_sample raises for it. (Equal means the same double, a NaN included.)
C25_CentroidIsStormCentre ==
    LET e   == cyc_folder.env
        rec == cyc_out.sample
        lon == IF FGt(e.LON, Fin(180)) THEN FSub(e.LON, Fin(360)) ELSE e.LON
    IN  /\ CycloneEmitted =>
            /\ rec.centroid = to_wkb(Point(lon, e.LAT))
            /\ rec.center_lon = rec.centroid[1]
            /\ rec.center_lat = rec.centroid[2]
        /\ LacksLatOrLon(e) =>
            /\ ~CycloneEmitted
            /\ CycloneBuildRan => cyc_out.kind = "raise"

\* A record whose longitude was brought from 200 to -160 in both places.
C25_Witness ==
    /\ CycloneEmitted
    /\ cyc_folder.env.LON = Fin(200)
    /\ cyc_folder.env.LAT = Fin(0 - 5)
    /\ cyc_out.sample.centroid = <<Fin(0 - 160), Fin(0 - 5)>>
    /\ cyc_out.sample.center_lon = Fin(0 - 160)

\* Folder names that try every 4-letter beginning over G, 1, 6, _, 2 before
\* a run of digits and an underscore.
PatternProbes ==
    {<<p[1], p[2], p[3], p[4], "0", "1", "0", "1", "_">> :
        p \in [1..4 -> {"G", "1", "6", "_", "2"}]}

\* C27: the two folder-name patterns of the cyclone variant ('G16_' at the
\* start, eight digits and '_' at the start) never both match, and an emitted
\* record has satellite 'GOES' and the lon_0=-75 sweep=x projection exactly
\* when its folder name starts with 'G16_', and 'Himawari' with lon_0=140.7
\* sweep=y otherwise.
C27_SensorFollowsFolderName ==
    /\ \A n \in PatternProbes \cup CycloneFolderNames :
          ~(StartsWith(n, S_G16) /\ MatchesHimawariPattern(n))
    /\ CycloneEmitted =>
          IF StartsWith(cyc_folder.name, S_G16)
          THEN /\ cyc_out.sample.satellite = "GOES"
               /\ cyc_out.sample.crs = CRS_GOES
          ELSE /\ MatchesHimawariPattern(cyc_folder.name)
               /\ cyc_out.sample.satellite = "Himawari"
               /\ cyc_out.sample.crs = CRS_HIMAWARI

\* A record emitted for a folder named by a date.
C27_Witness ==
    /\ CycloneEmitted
    /\ MatchesHimawariPattern(cyc_folder.name)
    /\ cyc_out.sample.satellite = "Himawari"
    /\ cyc_out.sample.crs = CRS_HIMAWARI

\* x >= y: false whenever a NaN is involved.
FGe(x, y) == ~IsNaN(x) /\ ~IsNaN(y) /\ ~FGt(y, x)

\* C29: cyclone:delta_t_seconds of an emitted record is always >= 0: the
\* absolute value of abs_delta_t_s when the record has it, otherwise of
\* delta_t when it has that, otherwise 0.
C29_DeltaTNonNegative ==
    CycloneEmitted =>
        LET e == cyc_folder.env
            d == cyc_out.sample.delta_t_seconds
        IN  /\ FGe(d, Fin(0))
            /\ d = IF e.abs_delta_t_s # Absent THEN FAbs(e.abs_delta_t_s)
                   ELSE IF e.delta_t # Absent THEN FAbs(e.delta_t)
                   ELSE Fin(0)

(***************************************************************************)
(* Order of the records, and folders the finetune MSG builder cannot date.  *)
(***************************************************************************)
MapVariants == {"ft_himawari", "ft_msi", "pre_msi"}

\* C26: in the variants that map the builder over the contexts (finetune
\* Himawari, finetune MSG, pretraining MSI) the records of the returned
\* collection are in the order of the input contexts, the dropped contexts
\* left out, whether the build ran in parallel or sequentially.
C26_RecordsInContextOrder ==
    (variant \in MapVariants /\ pc = "done") =>
        LET kept == {i \in 1..NCtx : OutcomeOf(i).kind = "sample"}
            good == FilterSeq(Indices(NCtx), kept)
        IN  /\ ret.kind = "tortilla"
            /\ [k \in DOMAIN ret.samples |-> ret.samples[k].id]
                  = [k \in DOMAIN good |-> contexts[good[k]].id]

\* A parallel build that kept two contexts.
C26_Witness ==
    /\ variant \in MapVariants
    /\ pc = "done"
    /\ parallel /\ NCtx = 2
    /\ Len(ret.samples) = 2
    /\ ret.samples[1].id = contexts[1].id
    /\ ret.samples[1].id # ret.samples[2].id

\* The name starts with MSG and does not match MSG\d+_(\d{14})_.
Undatable(ident) == StartsWith(ident, S_MSG) /\ MatchMsgDirname(ident) = <<>>

====
